---- MODULE Spec2Model ----
(***************************************************************************)
(* Seat-lifecycle engine of the ticketing system: the relational rows      *)
(* (seats, reservations, bookings), the coordination store (lease locks,   *)
(* priority streams, status registry), the request handlers of the         *)
(* immediate path (v1), the per-event queue worker (v2) and the reclaimer. *)
(*                                                                         *)
(* Granularity.  A handler is a task that advances one suspension point    *)
(* (one awaited store command) per step.  Two things are atomic:           *)
(*   - a block that starts with SELECT ... FOR UPDATE and ends with        *)
(*     commit: the row locks it holds keep every other writer and every    *)
(*     other locking reader of those rows out until the commit;            *)
(*   - the plain reads a handler makes before it asks for a lock: they     *)
(*     belong to one transaction and see one snapshot.                     *)
(* Rows read by a plain SELECT stay in the session as loaded; the commit   *)
(* writes exactly the columns the handler changed on the loaded object     *)
(* (UPDATE ... WHERE <primary key>), whatever the row holds by then.       *)
(*                                                                         *)
(* Time is counted in ticks of 600 s.  NULL columns are the empty set, a   *)
(* set column {v} holds the value v.                                       *)
(***************************************************************************)
EXTENDS Integers, Sequences, FiniteSets, TLC

(***************************************************************************)
(* Bounds of the model                                                     *)
(***************************************************************************)
\* number of v1 request tasks that may be in flight together
MaxTasks == 2
\* last tick of the clock
MaxTime == 2
\* rows the reservations table may hold
MaxReservations == 3
\* rows the bookings table may hold
MaxBookings == 2
\* retry budget of one lock acquisition (settings.LOCK_MAX_RETRIES, 50)
MaxRetries == 1
\* settings.MAX_SEATS_PER_BOOKING (10), scaled to the four seat ids requests name
MaxSeatsPerBooking == 3
\* v2 requests that may be submitted
MaxRequests == 3
\* requests the API accepts in one behaviour
MaxCalls == 4
\* reserve requests that contend in the contended-reservation scenario
MaxContenders == 2
\* requests of a serial history
MaxSerialCalls == 4
\* requests of a booking history
MaxBookCalls == 2
\* QueueWorker tasks the process has room for
MaxWorkers == 2

(***************************************************************************)
(* Program constants                                                       *)
(***************************************************************************)
\* settings.RESERVATION_TIMEOUT_SECONDS = 600 s = 1 tick
ReservationTimeoutTicks == 1

NULL == {}

Users == {"U1", "U2"}
\* seats 1 and 2 belong to event 1, seat 3 to event 2, seat 4 does not exist
SeatIds == {1, 2, 3}
ReqSeatIds == {1, 2, 3, 4}
EventId == 1
\* additional_minutes of an extension (1..15), in whole ticks: fewer than ten
\* minutes end within the current tick, ten or more in the next one
ExtendTicks == {0, 1}
Tasks == 1..MaxTasks
Workers == 1..MaxWorkers
\* websocket connections of clients
MaxSubscribers == 1
Subscribers == 1..MaxSubscribers
\* QueuePriority, in the order dequeue visits the streams
Priorities == <<"high", "normal", "low">>
RequestIds == 1..MaxRequests

SeatEvent(s) == IF s = 3 THEN 2 ELSE 1
SeatPrice(s) == IF s = 1 THEN 50 ELSE 70
SeatNumber(s) == IF s = 1 THEN "10" ELSE IF s = 2 THEN "11" ELSE "12"

\* seat sets the reserve and book requests name
RequestSets == {{1}, {2}, {1, 2}, {3}, {1, 4}, {1, 2, 3, 4}}

VARIABLES
    seats,          \* seats table: seat_id -> row
    reservations,   \* reservations table: sequence of rows, reservation_id = index
    bookings,       \* bookings table with its booking_seats: booking_id = index
    locks,          \* coordination store: lock:seat:<id> -> NULL or {owner token}
    now,            \* wall clock, in ticks
    tasks,          \* v1 request tasks: task id -> handler state
    reclaimer,      \* the background cleanup task
    calls,          \* requests the API has accepted so far
    streams,        \* coordination store: priority -> stream of queued requests
    group,          \* consumer group: entries delivered per stream, pending entries
    registry,       \* coordination store: request_id -> status and result hashes
    workers,        \* the QueueWorker tasks of the process, all for the event
    events,         \* events table: event_id -> row with its seat counters
    dlq,            \* coordination store: the dead-letter stream ticketing:dlq
    subs            \* the status subscriptions (websocket connections)

queueVars == <<streams, group, registry, workers>>

vars == <<seats, reservations, bookings, locks, now, tasks, reclaimer, calls, queueVars,
         events, dlq, subs>>

(***************************************************************************)
(* Helpers                                                                 *)
(***************************************************************************)
Min(S) == CHOOSE x \in S : \A y \in S : x <= y

RECURSIVE SortedSeq(_)
\* sorted(keys): the keys of a multi_lock in ascending order
SortedSeq(S) == IF S = {} THEN <<>> ELSE <<Min(S)>> \o SortedSeq(S \ {Min(S)})

RECURSIVE SumPrice(_)
SumPrice(S) == IF S = {} THEN 0
               ELSE LET s == CHOOSE x \in S : TRUE IN SeatPrice(s) + SumPrice(S \ {s})

Range(f) == {f[i] : i \in DOMAIN f}

ActiveOn(resv, s) == {i \in DOMAIN resv : resv[i].seat_id = s /\ resv[i].status = "ACTIVE"}

\* the unit of work: an UPDATE carries the columns whose value the handler
\* changed on the loaded object, and only those
Flush(cur, loaded, new) ==
    [f \in DOMAIN cur |-> IF new[f] # loaded[f] THEN new[f] ELSE cur[f]]

NewSeat == [status |-> "AVAILABLE", reserved_by |-> NULL, reserved_until |-> NULL,
            booking_id |-> NULL, version |-> 0]

(***************************************************************************)
(* ReservationService: the blocks that run between SELECT ... FOR UPDATE   *)
(* and commit                                                              *)
(***************************************************************************)
\* the rows a successful reserve inserts, one per seat in seat_id order
NewReservations(ids, user_id, expires_at) ==
    [i \in 1..Len(ids) |-> [seat_id |-> ids[i], user_id |-> user_id,
                            expires_at |-> expires_at, status |-> "ACTIVE"]]

\* a faulty _do_reserve_seats that takes the seats it finds AVAILABLE before
\* it reports the others: ReserveAllOrNothing does not hold of it
do_reserve_seats_partial(db_seats, db_res, event_id, seat_ids, user_id, t) ==
    LET found == seat_ids \cap DOMAIN db_seats
        free == {s \in found : db_seats[s].status = "AVAILABLE"}
        expires_at == t + ReservationTimeoutTicks
    IN  IF Cardinality(found) # Cardinality(seat_ids)
        THEN [result |-> "not_found", labels |-> {}, seats |-> db_seats,
              reservations |-> db_res]
        ELSE IF \E s \in found : SeatEvent(s) # event_id
        THEN [result |-> "wrong_event", labels |-> {}, seats |-> db_seats,
              reservations |-> db_res]
        ELSE [result |-> IF free = found THEN "ok" ELSE "unavailable",
              labels |-> {SeatNumber(s) : s \in found \ free},
              seats |-> [s \in DOMAIN db_seats |->
                            IF s \in free
                            THEN [db_seats[s] EXCEPT !.status = "RESERVED",
                                                     !.reserved_by = {user_id},
                                                     !.reserved_until = {expires_at},
                                                     !.version = @ + 1]
                            ELSE db_seats[s]],
              reservations |-> db_res \o NewReservations(SortedSeq(free), user_id, expires_at)]

\* ReservationService._do_reserve_seats (v1, inside multi_lock)
do_reserve_seats(db_seats, db_res, event_id, seat_ids, user_id, t) ==
    LET found == seat_ids \cap DOMAIN db_seats
        unavailable == {s \in found : db_seats[s].status # "AVAILABLE"}
        expires_at == t + ReservationTimeoutTicks
        fail(err, labels) == [result |-> err, labels |-> labels,
                              seats |-> db_seats, reservations |-> db_res]
    IN  IF Cardinality(found) # Cardinality(seat_ids) THEN fail("not_found", {})
        ELSE IF \E s \in found : SeatEvent(s) # event_id THEN fail("wrong_event", {})
        ELSE IF unavailable # {}
             THEN fail("unavailable", {SeatNumber(s) : s \in unavailable})
        ELSE [result |-> "ok", labels |-> {},
              seats |-> [s \in DOMAIN db_seats |->
                            IF s \in found
                            THEN [db_seats[s] EXCEPT !.status = "RESERVED",
                                                     !.reserved_by = {user_id},
                                                     !.reserved_until = {expires_at},
                                                     !.version = @ + 1]
                            ELSE db_seats[s]],
              reservations |-> db_res \o NewReservations(SortedSeq(found), user_id, expires_at)]

\* a faulty _do_reserve that does not look at the status of the seats:
\* ContendedReserve does not hold of it
do_reserve_unchecked(db_seats, db_res, event_id, seat_ids, user_id, t) ==
    LET found == seat_ids \cap DOMAIN db_seats
        expires_at == t + ReservationTimeoutTicks
    IN  IF Cardinality(found) # Cardinality(seat_ids)
        THEN [result |-> "not_found", labels |-> {}, seats |-> db_seats,
              reservations |-> db_res]
        ELSE IF \E s \in found : SeatEvent(s) # event_id
        THEN [result |-> "wrong_event", labels |-> {}, seats |-> db_seats,
              reservations |-> db_res]
        ELSE [result |-> "ok", labels |-> {},
              seats |-> [s \in DOMAIN db_seats |->
                            IF s \in found
                            THEN [db_seats[s] EXCEPT !.status = "RESERVED",
                                                     !.reserved_by = {user_id},
                                                     !.reserved_until = {expires_at},
                                                     !.version = @ + 1]
                            ELSE db_seats[s]],
              reservations |-> db_res \o NewReservations(SortedSeq(found), user_id, expires_at)]

\* QueuedReservationService._do_reserve (v2, inside the queue worker, no lock)
do_reserve(db_seats, db_res, event_id, seat_ids, user_id, t) ==
    LET found == seat_ids \cap DOMAIN db_seats
        unavailable == {s \in found : db_seats[s].status # "AVAILABLE"}
        expires_at == t + ReservationTimeoutTicks
        fail(err, labels) == [result |-> err, labels |-> labels,
                              seats |-> db_seats, reservations |-> db_res]
    IN  IF Cardinality(found) # Cardinality(seat_ids) THEN fail("not_found", {})
        ELSE IF \E s \in found : SeatEvent(s) # event_id THEN fail("wrong_event", {})
        ELSE IF unavailable # {}
             THEN fail("unavailable", {SeatNumber(s) : s \in unavailable})
        ELSE [result |-> "ok", labels |-> {},
              seats |-> [s \in DOMAIN db_seats |->
                            IF s \in found
                            THEN [db_seats[s] EXCEPT !.status = "RESERVED",
                                                     !.reserved_by = {user_id},
                                                     !.reserved_until = {expires_at},
                                                     !.version = @ + 1]
                            ELSE db_seats[s]],
              reservations |-> db_res \o NewReservations(SortedSeq(found), user_id, expires_at)]

\* cancel_reservation, the block inside multi_lock: the seat is read under
\* FOR UPDATE, the reservation is the object loaded before the lock
cancel_reservation_locked(db_seats, db_res, rid, loaded) ==
    LET s == loaded.seat_id
        seat == db_seats[s]
    IN  [seats |-> IF seat.status = "RESERVED"
                   THEN [db_seats EXCEPT ![s] = [seat EXCEPT !.status = "AVAILABLE",
                                                            !.reserved_by = NULL,
                                                            !.reserved_until = NULL,
                                                            !.version = @ + 1]]
                   ELSE db_seats,
         reservations |-> [db_res EXCEPT ![rid] =
                              Flush(@, loaded, [loaded EXCEPT !.status = "CANCELLED"])]]

\* extend_reservation, the block inside multi_lock
extend_reservation_locked(db_seats, db_res, rid, loaded, additional, t) ==
    LET s == loaded.seat_id
        new_expires == t + additional
    IN  [seats |-> [db_seats EXCEPT ![s].reserved_until = {new_expires}],
         reservations |-> [db_res EXCEPT ![rid] =
                              Flush(@, loaded, [loaded EXCEPT !.expires_at = new_expires])]]

\* a confirm_reservations that updates no row: BookCommitsWhole does not
\* hold of it
confirm_reservations_skipped(db_res, seat_ids, user_id) == db_res

\* ReservationService.confirm_reservations: one UPDATE ... WHERE over the table
confirm_reservations(db_res, seat_ids, user_id) ==
    [i \in DOMAIN db_res |->
        IF /\ db_res[i].seat_id \in seat_ids
           /\ db_res[i].user_id = user_id
           /\ db_res[i].status = "ACTIVE"
        THEN [db_res[i] EXCEPT !.status = "CONFIRMED"]
        ELSE db_res[i]]

\* expire_old_reservations, the SELECT: ACTIVE rows whose deadline has passed
ExpiredReservations(db_res, t) ==
    {i \in DOMAIN db_res : db_res[i].status = "ACTIVE" /\ db_res[i].expires_at < t}

\* expire_old_reservations, the commit: every selected reservation becomes
\* EXPIRED; a seat that was RESERVED when it was read is released
expire_commit(db_seats, db_res, loaded_res, loaded_seats) ==
    [seats |-> [s \in DOMAIN db_seats |->
                   IF s \in DOMAIN loaded_seats /\ loaded_seats[s].status = "RESERVED"
                   THEN Flush(db_seats[s], loaded_seats[s],
                              [loaded_seats[s] EXCEPT !.status = "AVAILABLE",
                                                      !.reserved_by = NULL,
                                                      !.reserved_until = NULL,
                                                      !.version = @ + 1])
                   ELSE db_seats[s]],
     reservations |-> [i \in DOMAIN db_res |->
                   IF i \in DOMAIN loaded_res
                   THEN Flush(db_res[i], loaded_res[i],
                              [loaded_res[i] EXCEPT !.status = "EXPIRED"])
                   ELSE db_res[i]]]

(***************************************************************************)
(* BookingService                                                          *)
(***************************************************************************)
\* the first complaint of the validation loop of _do_create_booking, which
\* visits the seats in seat_id order; "ok" when every seat passes
RECURSIVE BookingCheck(_, _, _, _)
BookingCheck(db_seats, ids, event_id, user_id) ==
    IF ids = <<>> THEN "ok"
    ELSE LET s == Head(ids) IN
         IF SeatEvent(s) # event_id THEN "wrong_event"
         ELSE IF db_seats[s].status # "RESERVED" THEN "not_reserved"
         ELSE IF db_seats[s].reserved_by # {user_id} THEN "not_yours"
         ELSE BookingCheck(db_seats, Tail(ids), event_id, user_id)

\* a faulty _do_create_booking that books every seat it finds, whatever its
\* status and whoever holds it: BookNeedsHold does not hold of it
do_create_booking_unchecked(db_seats, db_res, db_book, event_id, user_id, seat_ids) ==
    LET found == seat_ids \cap DOMAIN db_seats
        booking_id == Len(db_book) + 1
    IN  [result |-> "ok",
         seats |-> [s \in DOMAIN db_seats |->
                       IF s \in found
                       THEN [db_seats[s] EXCEPT !.status = "BOOKED",
                                                !.booking_id = {booking_id},
                                                !.reserved_by = NULL,
                                                !.reserved_until = NULL,
                                                !.version = @ + 1]
                       ELSE db_seats[s]],
         reservations |-> confirm_reservations(db_res, seat_ids, user_id),
         bookings |-> Append(db_book,
                         [user_id |-> user_id, status |-> "PENDING",
                          payment_status |-> "PENDING", payment_id |-> NULL,
                          confirmed |-> FALSE,
                          total_amount |-> SumPrice(found),
                          booking_seats |-> found,
                          seat_price |-> [s \in found |-> SeatPrice(s)]])]

\* BookingService._do_create_booking (inside multi_lock)
do_create_booking(db_seats, db_res, db_book, event_id, user_id, seat_ids) ==
    LET found == seat_ids \cap DOMAIN db_seats
        check == BookingCheck(db_seats, SortedSeq(found), event_id, user_id)
        booking_id == Len(db_book) + 1
        fail(err) == [result |-> err, seats |-> db_seats, reservations |-> db_res,
                      bookings |-> db_book]
    IN  IF Cardinality(found) # Cardinality(seat_ids) THEN fail("not_found")
        ELSE IF check # "ok" THEN fail(check)
        ELSE [result |-> "ok",
              seats |-> [s \in DOMAIN db_seats |->
                            IF s \in found
                            THEN [db_seats[s] EXCEPT !.status = "BOOKED",
                                                     !.booking_id = {booking_id},
                                                     !.reserved_by = NULL,
                                                     !.reserved_until = NULL,
                                                     !.version = @ + 1]
                            ELSE db_seats[s]],
              reservations |-> confirm_reservations(db_res, seat_ids, user_id),
              bookings |-> Append(db_book,
                              [user_id |-> user_id, status |-> "PENDING",
                               payment_status |-> "PENDING", payment_id |-> NULL,
                               confirmed |-> FALSE,
                               total_amount |-> SumPrice(found),
                               booking_seats |-> found,
                          seat_price |-> [s \in found |-> SeatPrice(s)]])]

\* get_booking_seats: the seats whose booking_id is the booking, as loaded
get_booking_seats(db_seats, booking_id) ==
    [s \in {x \in DOMAIN db_seats : db_seats[x].booking_id = {booking_id}} |-> db_seats[s]]

\* confirm_payment, the commit: the booking is the object loaded before
confirm_payment_commit(db_book, booking_id, loaded, payment_id) ==
    [db_book EXCEPT ![booking_id] =
        Flush(@, loaded, [loaded EXCEPT !.payment_id = {payment_id},
                                        !.payment_status = "SUCCESS",
                                        !.status = "CONFIRMED",
                                        !.confirmed = TRUE])]

\* the release loop shared in shape by fail_payment and cancel_booking: each
\* seat loaded by get_booking_seats is re-selected FOR UPDATE and released
ReleaseBookedSeats(db_seats, loaded_seats) ==
    [s \in DOMAIN db_seats |->
        IF s \in DOMAIN loaded_seats
        THEN Flush(db_seats[s], loaded_seats[s],
                   [loaded_seats[s] EXCEPT !.status = "AVAILABLE",
                                           !.booking_id = NULL,
                                           !.version = @ + 1])
        ELSE db_seats[s]]

\* a faulty fail_payment that marks the booking FAILED but leaves its seats
\* BOOKED: FailPaymentReleases does not hold of it
fail_payment_keeps_seats(db_seats, db_book, booking_id, loaded, loaded_seats, payment_id) ==
    [seats |-> db_seats,
     bookings |-> [db_book EXCEPT ![booking_id] =
                      Flush(@, loaded, [loaded EXCEPT !.payment_id = {payment_id},
                                                      !.payment_status = "FAILED",
                                                      !.status = "FAILED"])]]

\* fail_payment, the block inside multi_lock
fail_payment_locked(db_seats, db_book, booking_id, loaded, loaded_seats, payment_id) ==
    [seats |-> ReleaseBookedSeats(db_seats, loaded_seats),
     bookings |-> [db_book EXCEPT ![booking_id] =
                      Flush(@, loaded, [loaded EXCEPT !.payment_id = {payment_id},
                                                      !.payment_status = "FAILED",
                                                      !.status = "FAILED"])]]

\* a faulty cancel_booking that frees the seats but leaves their owning
\* booking in place: ReleaseRoundTrips does not hold of it
cancel_booking_keeps_owner(db_seats, db_book, booking_id, loaded, loaded_seats) ==
    [seats |-> [s \in DOMAIN db_seats |->
                   IF s \in DOMAIN loaded_seats
                   THEN [db_seats[s] EXCEPT !.status = "AVAILABLE", !.version = @ + 1]
                   ELSE db_seats[s]],
     bookings |-> [db_book EXCEPT ![booking_id].status = "CANCELLED"]]

\* cancel_booking, the block inside multi_lock
cancel_booking_locked(db_seats, db_book, booking_id, loaded, loaded_seats) ==
    [seats |-> ReleaseBookedSeats(db_seats, loaded_seats),
     bookings |-> [db_book EXCEPT ![booking_id] =
                      Flush(@, loaded, [loaded EXCEPT !.status = "CANCELLED"])]]

(***************************************************************************)
(* State of the tasks                                                      *)
(***************************************************************************)
NoRows == [s \in {} |-> NewSeat]

IdleTask == [pc |-> "idle", op |-> "none", user |-> NULL, seat_ids |-> {},
             rid |-> 0, bid |-> 0, minutes |-> 0, request_id |-> 0,
             lres |-> NULL, lbk |-> NULL, lseats |-> NoRows,
             todo |-> <<>>, held |-> <<>>, retries |-> 0,
             declared |-> "none", header |-> "none",
             result |-> "none", labels |-> {}]

\* a handler that returns: its call and its outcome are what the caller sees
Finished(call, result, labels) ==
    [call EXCEPT !.pc = "done", !.result = result, !.labels = labels,
                 !.lres = NULL, !.lbk = NULL, !.lseats = NoRows,
                 !.todo = <<>>, !.held = <<>>, !.retries = 0]

\* an entry that takes the keys from the highest to the lowest:
\* MultiLockOrder does not hold of it
EnterMultiLockDescending(call, keys) ==
    [call EXCEPT !.pc = IF keys = {} THEN "cs" ELSE "lock",
                 !.todo = [i \in 1..Cardinality(keys) |->
                               SortedSeq(keys)[Cardinality(keys) + 1 - i]],
                 !.held = <<>>, !.retries = 0]

\* entry of `async with multi_lock(redis, keys)`: MultiLock sorts the keys
EnterMultiLock(call, keys) ==
    [call EXCEPT !.pc = IF keys = {} THEN "cs" ELSE "lock",
                 !.todo = SortedSeq(keys), !.held = <<>>, !.retries = 0]

Free(t) == tasks[t].pc = "idle"
\* a request arrives and is served by a task of its own; tasks are
\* interchangeable, the request takes the first free one
Start(t) ==
    /\ Free(t)
    /\ \A x \in Tasks : x < t => ~Free(x)
    /\ calls < MaxCalls
    /\ calls' = calls + 1
InFlight(t) == tasks[t].pc \notin {"idle", "done"}

\* task t continues as `call`
Settle(t, call) == tasks' = [tasks EXCEPT ![t] = call]

RECURSIVE RowsInFlight(_)
\* reservation rows the reserve calls in flight may still insert
RowsInFlight(T) ==
    IF T = {} THEN 0
    ELSE LET t == CHOOSE x \in T : TRUE IN
         (IF tasks[t].op = "reserve" /\ InFlight(t) THEN Cardinality(tasks[t].seat_ids) ELSE 0)
         + RowsInFlight(T \ {t})

\* the requests of the streams, and those the worker has not executed yet
Queued == Range(streams["high"]) \cup Range(streams["normal"]) \cup Range(streams["low"])
Unprocessed == {q \in Queued : /\ registry[q.request_id].result = NULL
                                /\ ~\E w \in Workers : workers[w].request = {q} /\ workers[w].out # NULL}

RECURSIVE RowsQueued(_)
\* reservation rows the queued requests may still insert
RowsQueued(Q) ==
    IF Q = {} THEN 0
    ELSE LET q == CHOOSE x \in Q : TRUE IN Cardinality(q.seat_ids) + RowsQueued(Q \ {q})

\* room left in the reservations table for a request of n seats
Room(n) ==
    Len(reservations) + RowsInFlight(Tasks) + RowsQueued(Unprocessed) + n <= MaxReservations

BookingsInFlight == Cardinality({t \in Tasks : tasks[t].op = "book" /\ InFlight(t)})

\* QueueWorker before start(): not running, nothing dequeued
IdleWorker == [running |-> FALSE, pc |-> "read", at |-> 1, request |-> NULL, out |-> NULL,
               raised |-> FALSE]

\* a websocket nobody has opened yet
NoSubscription == [pc |-> "closed", request_id |-> 0, last_status |-> "none", sent |-> "none"]

\* EventService.create_event: the event starts with every seat counted as
\* available; the seats of the event are created with it
NewEvent == [total_seats |-> Cardinality(SeatIds), available_seats |-> Cardinality(SeatIds)]

Init ==
    /\ seats = [s \in SeatIds |-> NewSeat]
    /\ reservations = <<>>
    /\ bookings = <<>>
    /\ locks = [k \in ReqSeatIds |-> NULL]
    /\ now = 0
    /\ tasks = [t \in Tasks |-> IdleTask]
    /\ reclaimer = [pc |-> "sleep", lres |-> <<>>, lseats |-> NoRows]
    /\ calls = 0
    /\ streams = [p \in Range(Priorities) |-> <<>>]
    /\ group = [delivered |-> [p \in Range(Priorities) |-> 0], pending |-> {}]
    /\ registry = [r \in RequestIds |-> [status |-> "none", result |-> NULL]]
    /\ workers = [w \in Workers |-> IdleWorker]
    /\ events = [e \in {EventId} |-> NewEvent]
    /\ dlq = <<>>
    /\ subs = [c \in Subscribers |-> NoSubscription]

(***************************************************************************)
(* distributed_lock.py: DistributedLock and MultiLock                      *)
(***************************************************************************)
\* an acquire that gives up one attempt later than max_retries allows:
\* MultiLockTerminates does not hold of it
AcquireStepOverBudget(t) ==
    /\ tasks[t].pc = "lock"
    /\ LET key == Head(tasks[t].todo) IN
       IF locks[key] = NULL
       THEN /\ locks' = [locks EXCEPT ![key] = {t}]
            /\ Settle(t, [tasks[t] EXCEPT !.todo = Tail(@),
                                          !.held = Append(@, key),
                                          !.retries = 0,
                                          !.pc = IF Len(tasks[t].todo) = 1 THEN "cs" ELSE "lock"])
       ELSE /\ UNCHANGED locks
            /\ IF tasks[t].retries >= MaxRetries + 1
               THEN \* acquire returns False: MultiLock releases what it holds and
                    \* multi_lock raises DistributedLockError
                    Settle(t, IF tasks[t].held = <<>>
                              THEN Finished(tasks[t], "lock_failed", {})
                              ELSE [tasks[t] EXCEPT !.pc = "unlock", !.todo = <<>>,
                                                    !.result = "lock_failed"])
               ELSE Settle(t, [tasks[t] EXCEPT !.retries = @ + 1])
    /\ UNCHANGED <<events, dlq, subs, seats, reservations, bookings, now, reclaimer, calls, queueVars>>

\* DistributedLock.acquire, one SET NX EX attempt on the next key of
\* MultiLock.acquire; the token identifies the acquiring task
AcquireStep(t) ==
    /\ tasks[t].pc = "lock"
    /\ LET key == Head(tasks[t].todo) IN
       IF locks[key] = NULL
       THEN /\ locks' = [locks EXCEPT ![key] = {t}]
            /\ Settle(t, [tasks[t] EXCEPT !.todo = Tail(@),
                                          !.held = Append(@, key),
                                          !.retries = 0,
                                          !.pc = IF Len(tasks[t].todo) = 1 THEN "cs" ELSE "lock"])
       ELSE /\ UNCHANGED locks
            /\ IF tasks[t].retries >= MaxRetries
               THEN \* acquire returns False: MultiLock releases what it holds and
                    \* multi_lock raises DistributedLockError
                    Settle(t, IF tasks[t].held = <<>>
                              THEN Finished(tasks[t], "lock_failed", {})
                              ELSE [tasks[t] EXCEPT !.pc = "unlock", !.todo = <<>>,
                                                    !.result = "lock_failed"])
               ELSE Settle(t, [tasks[t] EXCEPT !.retries = @ + 1])
    /\ UNCHANGED <<events, dlq, subs, seats, reservations, bookings, now, reclaimer, calls, queueVars>>

\* SET ... EX timeout_seconds: the store drops a lock key when its lease
\* runs out, whatever its holder is doing; the lease (30 s) is far shorter
\* than a tick of the clock
lease_expires(key) ==
    /\ locks[key] # NULL
    /\ locks' = [locks EXCEPT ![key] = NULL]
    /\ UNCHANGED <<events, dlq, subs, seats, reservations, bookings, now, tasks, reclaimer, calls, queueVars>>

\* a release that deletes the key whoever holds it: OwnerCheckedRelease does
\* not hold of it
release_unconditional(lk, key, token) == [lk EXCEPT ![key] = NULL]

\* DistributedLock.release (RELEASE_SCRIPT): delete the key if it still holds
\* the caller's token
release(lk, key, token) ==
    IF lk[key] = {token} THEN [lk EXCEPT ![key] = NULL] ELSE lk

\* MultiLock.release, one key per step, last acquired first
ReleaseStep(t) ==
    /\ tasks[t].pc = "unlock"
    /\ LET n == Len(tasks[t].held)
           key == tasks[t].held[n] IN
       /\ locks' = release(locks, key, t)
       /\ Settle(t, IF n = 1 THEN Finished(tasks[t], tasks[t].result, tasks[t].labels)
                     ELSE [tasks[t] EXCEPT !.held = SubSeq(@, 1, n - 1)])
    /\ UNCHANGED <<events, dlq, subs, seats, reservations, bookings, now, reclaimer, calls, queueVars>>

\* leaving the block of multi_lock with an outcome
LeaveMultiLock(call, result, labels) ==
    IF call.held = <<>> THEN Finished(call, result, labels)
    ELSE [call EXCEPT !.pc = "unlock", !.result = result, !.labels = labels,
                      !.lres = NULL, !.lbk = NULL, !.lseats = NoRows]

(***************************************************************************)
(* ReservationService handlers (v1)                                        *)
(***************************************************************************)
Call(op, user) == [IdleTask EXCEPT !.op = op, !.user = user]

\* a request schema that lets every seat list through: RejectsBadSize does
\* not hold of it
SeatIdsFieldAny(seat_ids) == TRUE

\* the seat_ids field of ReservationCreate and of QueuedReservationRequest,
\* validated before the endpoint runs: min_length 1, max_length 10 (the
\* default of MAX_SEATS_PER_BOOKING)
SeatIdsField(seat_ids) ==
    Cardinality(seat_ids) >= 1 /\ Cardinality(seat_ids) <= MaxSeatsPerBooking

\* the reserve endpoint and reserve_seats up to the lock: the request schema,
\* the size check, then multi_lock on the seats
reserve_seats(t, user_id, seat_ids) ==
    /\ Start(t)
    /\ SeatIdsField(seat_ids) => Room(Cardinality(seat_ids))
    /\ LET call == [Call("reserve", {user_id}) EXCEPT !.seat_ids = seat_ids] IN
       Settle(t,
                    IF ~SeatIdsField(seat_ids)
                    THEN Finished(call, "invalid_input", {})
                    ELSE IF Cardinality(seat_ids) > MaxSeatsPerBooking
                    THEN Finished(call, "invalid", {})
                    ELSE EnterMultiLock(call, seat_ids))
    /\ UNCHANGED <<events, dlq, subs, seats, reservations, bookings, locks, now, reclaimer, queueVars>>

\* reserve_seats inside the lock: _do_reserve_seats
reserve_seats_locked(t) ==
    /\ tasks[t].pc = "cs" /\ tasks[t].op = "reserve"
    /\ LET user_id == CHOOSE u \in tasks[t].user : TRUE
           r == do_reserve_seats(seats, reservations, EventId, tasks[t].seat_ids, user_id, now)
       IN /\ seats' = r.seats
          /\ reservations' = r.reservations
          /\ Settle(t, LeaveMultiLock(tasks[t], r.result, r.labels))
    /\ UNCHANGED <<events, dlq, subs, bookings, locks, now, reclaimer, calls, queueVars>>

\* cancel_reservation without the check of the owner: OwnerOnly does not
\* hold of it
cancel_reservation_any_user(t, user_id, reservation_id) ==
    /\ Start(t)
    /\ reservation_id \in DOMAIN reservations
    /\ LET reservation == reservations[reservation_id]
           call == [Call("cancel_reservation", {user_id}) EXCEPT !.rid = reservation_id] IN
       Settle(t,
                    IF reservation.status # "ACTIVE" THEN Finished(call, "not_active", {})
                    ELSE EnterMultiLock([call EXCEPT !.lres = {reservation}],
                                        {reservation.seat_id}))
    /\ UNCHANGED <<events, dlq, subs, seats, reservations, bookings, locks, now, reclaimer, queueVars>>

\* cancel_reservation up to the lock: get_reservation and the two checks
cancel_reservation(t, user_id, reservation_id) ==
    /\ Start(t)
    /\ reservation_id \in DOMAIN reservations
    /\ LET reservation == reservations[reservation_id]
           call == [Call("cancel_reservation", {user_id}) EXCEPT !.rid = reservation_id] IN
       Settle(t,
                    IF reservation.user_id # user_id THEN Finished(call, "forbidden", {})
                    ELSE IF reservation.status # "ACTIVE" THEN Finished(call, "not_active", {})
                    ELSE EnterMultiLock([call EXCEPT !.lres = {reservation}],
                                        {reservation.seat_id}))
    /\ UNCHANGED <<events, dlq, subs, seats, reservations, bookings, locks, now, reclaimer, queueVars>>

\* cancel_reservation inside the lock
cancel_reservation_cs(t) ==
    /\ tasks[t].pc = "cs" /\ tasks[t].op = "cancel_reservation"
    /\ LET loaded == CHOOSE r \in tasks[t].lres : TRUE
           r == cancel_reservation_locked(seats, reservations, tasks[t].rid, loaded)
       IN /\ seats' = r.seats
          /\ reservations' = r.reservations
          /\ Settle(t, LeaveMultiLock(tasks[t], "ok", {}))
    /\ UNCHANGED <<events, dlq, subs, bookings, locks, now, reclaimer, calls, queueVars>>

\* extend_reservation up to the lock
extend_reservation(t, user_id, reservation_id, additional) ==
    /\ Start(t)
    /\ reservation_id \in DOMAIN reservations
    /\ LET reservation == reservations[reservation_id]
           call == [Call("extend_reservation", {user_id}) EXCEPT !.rid = reservation_id,
                                                                !.minutes = additional] IN
       Settle(t,
                    IF reservation.user_id # user_id THEN Finished(call, "forbidden", {})
                    ELSE IF reservation.status # "ACTIVE" THEN Finished(call, "not_active", {})
                    ELSE EnterMultiLock([call EXCEPT !.lres = {reservation}],
                                        {reservation.seat_id}))
    /\ UNCHANGED <<events, dlq, subs, seats, reservations, bookings, locks, now, reclaimer, queueVars>>

\* extend_reservation inside the lock
extend_reservation_cs(t) ==
    /\ tasks[t].pc = "cs" /\ tasks[t].op = "extend_reservation"
    /\ LET loaded == CHOOSE r \in tasks[t].lres : TRUE
           r == extend_reservation_locked(seats, reservations, tasks[t].rid, loaded,
                                          tasks[t].minutes, now)
       IN /\ seats' = r.seats
          /\ reservations' = r.reservations
          /\ Settle(t, LeaveMultiLock(tasks[t], "ok", {}))
    /\ UNCHANGED <<events, dlq, subs, bookings, locks, now, reclaimer, calls, queueVars>>

(***************************************************************************)
(* The reclaimer: tasks.cleanup_expired_reservations                       *)
(***************************************************************************)
\* expire_old_reservations, the reads: the expired ACTIVE reservations and
\* the seat of each, with no lock taken
expire_old_reservations ==
    /\ reclaimer.pc = "sleep"
    /\ LET expired == ExpiredReservations(reservations, now)
           seat_ids == {reservations[i].seat_id : i \in expired} IN
       /\ expired # {}
       /\ reclaimer' = [pc |-> "commit",
                        lres |-> [i \in expired |-> reservations[i]],
                        lseats |-> [s \in seat_ids |-> seats[s]]]
    /\ UNCHANGED <<events, dlq, subs, seats, reservations, bookings, locks, now, tasks, calls, queueVars>>

\* expire_old_reservations, the commit
expire_old_reservations_commit ==
    /\ reclaimer.pc = "commit"
    /\ LET r == expire_commit(seats, reservations, reclaimer.lres, reclaimer.lseats) IN
       /\ seats' = r.seats
       /\ reservations' = r.reservations
    /\ reclaimer' = [pc |-> "sleep", lres |-> <<>>, lseats |-> NoRows]
    /\ UNCHANGED <<events, dlq, subs, bookings, locks, now, tasks, calls, queueVars>>

\* the caller has taken the outcome; the task is free for the next request
Return(t) ==
    /\ tasks[t].pc = "done"
    /\ tasks' = [tasks EXCEPT ![t] = IdleTask]
    /\ UNCHANGED <<events, dlq, subs, seats, reservations, bookings, locks, now, reclaimer, calls, queueVars>>

\* no handler is between its last store command and its return; a return
\* touches nothing shared, so it is taken before any other step
Running == \A t \in Tasks : tasks[t].pc # "done"

\* the clock
Tick ==
    /\ now < MaxTime
    /\ now' = now + 1
    /\ UNCHANGED <<events, dlq, subs, seats, reservations, bookings, locks, tasks, reclaimer, calls, queueVars>>

(***************************************************************************)
(* BookingService handlers (v1)                                            *)
(***************************************************************************)
PaymentId == "pay-1"

\* create_booking up to the lock
create_booking(t, user_id, seat_ids) ==
    /\ Start(t)
    /\ Len(bookings) + BookingsInFlight < MaxBookings
    /\ LET call == [Call("book", {user_id}) EXCEPT !.seat_ids = seat_ids] IN
       Settle(t,
                    IF seat_ids = {} THEN Finished(call, "invalid", {})
                    ELSE EnterMultiLock(call, seat_ids))
    /\ UNCHANGED <<events, dlq, subs, seats, reservations, bookings, locks, now, reclaimer, queueVars>>

\* create_booking inside the lock: _do_create_booking
create_booking_locked(t) ==
    /\ tasks[t].pc = "cs" /\ tasks[t].op = "book"
    /\ LET user_id == CHOOSE u \in tasks[t].user : TRUE
           r == do_create_booking(seats, reservations, bookings, EventId, user_id,
                                  tasks[t].seat_ids)
       IN /\ seats' = r.seats
          /\ reservations' = r.reservations
          /\ bookings' = r.bookings
          /\ Settle(t,
                         LeaveMultiLock([tasks[t] EXCEPT !.bid =
                                            IF r.result = "ok" THEN Len(r.bookings) ELSE 0],
                                        r.result, {}))
    /\ UNCHANGED <<events, dlq, subs, locks, now, reclaimer, calls, queueVars>>

\* confirm_payment up to the commit: get_booking and the status check
confirm_payment(t, booking_id) ==
    /\ Start(t)
    /\ booking_id \in DOMAIN bookings
    /\ LET booking == bookings[booking_id]
           call == [Call("confirm_payment", NULL) EXCEPT !.bid = booking_id] IN
       Settle(t,
                    IF booking.status # "PENDING" THEN Finished(call, "not_pending", {})
                    ELSE [call EXCEPT !.pc = "commit", !.lbk = {booking}])
    /\ UNCHANGED <<events, dlq, subs, seats, reservations, bookings, locks, now, reclaimer, queueVars>>

\* confirm_payment, the commit
confirm_payment_cs(t) ==
    /\ tasks[t].pc = "commit" /\ tasks[t].op = "confirm_payment"
    /\ LET loaded == CHOOSE b \in tasks[t].lbk : TRUE IN
       bookings' = confirm_payment_commit(bookings, tasks[t].bid, loaded, PaymentId)
    /\ Settle(t, Finished(tasks[t], "ok", {}))
    /\ UNCHANGED <<events, dlq, subs, seats, reservations, locks, now, reclaimer, calls, queueVars>>

\* fail_payment up to the lock: get_booking, the status check, get_booking_seats
fail_payment(t, booking_id) ==
    /\ Start(t)
    /\ booking_id \in DOMAIN bookings
    /\ LET booking == bookings[booking_id]
           loaded_seats == get_booking_seats(seats, booking_id)
           call == [Call("fail_payment", NULL) EXCEPT !.bid = booking_id] IN
       Settle(t,
                    IF booking.status # "PENDING" THEN Finished(call, "not_pending", {})
                    ELSE EnterMultiLock([call EXCEPT !.lbk = {booking},
                                                     !.lseats = loaded_seats],
                                        DOMAIN loaded_seats))
    /\ UNCHANGED <<events, dlq, subs, seats, reservations, bookings, locks, now, reclaimer, queueVars>>

\* fail_payment inside the lock
fail_payment_cs(t) ==
    /\ tasks[t].pc = "cs" /\ tasks[t].op = "fail_payment"
    /\ LET loaded == CHOOSE b \in tasks[t].lbk : TRUE
           r == fail_payment_locked(seats, bookings, tasks[t].bid, loaded,
                                    tasks[t].lseats, PaymentId)
       IN /\ seats' = r.seats
          /\ bookings' = r.bookings
          /\ Settle(t, LeaveMultiLock(tasks[t], "ok", {}))
    /\ UNCHANGED <<events, dlq, subs, reservations, locks, now, reclaimer, calls, queueVars>>

\* cancel_booking up to the lock
cancel_booking(t, user_id, booking_id) ==
    /\ Start(t)
    /\ booking_id \in DOMAIN bookings
    /\ LET booking == bookings[booking_id]
           loaded_seats == get_booking_seats(seats, booking_id)
           call == [Call("cancel_booking", {user_id}) EXCEPT !.bid = booking_id] IN
       Settle(t,
                    IF booking.user_id # user_id THEN Finished(call, "forbidden", {})
                    ELSE IF booking.status \notin {"PENDING", "CONFIRMED"}
                         THEN Finished(call, "not_cancellable", {})
                    ELSE EnterMultiLock([call EXCEPT !.lbk = {booking},
                                                     !.lseats = loaded_seats],
                                        DOMAIN loaded_seats))
    /\ UNCHANGED <<events, dlq, subs, seats, reservations, bookings, locks, now, reclaimer, queueVars>>

\* cancel_booking inside the lock
cancel_booking_cs(t) ==
    /\ tasks[t].pc = "cs" /\ tasks[t].op = "cancel_booking"
    /\ LET loaded == CHOOSE b \in tasks[t].lbk : TRUE
           r == cancel_booking_locked(seats, bookings, tasks[t].bid, loaded, tasks[t].lseats)
       IN /\ seats' = r.seats
          /\ bookings' = r.bookings
          /\ Settle(t, LeaveMultiLock(tasks[t], "ok", {}))
    /\ UNCHANGED <<events, dlq, subs, reservations, locks, now, reclaimer, calls, queueVars>>

(***************************************************************************)
(* v2: QueuedReservationService, TicketingQueue and QueueWorker            *)
(***************************************************************************)
\* TicketingQueue._set_status: HSET on the status hash of the request
set_status(reg, request_id, status) == [reg EXCEPT ![request_id].status = status]

\* the v2 reserve endpoint and submit_reservation up to the first write, for
\* the request `call`: the request schema, the size check, then XADD of
\* enqueue on the stream of the priority; request ids are fresh
submit(t, call, priority) ==
    /\ Start(t)
    /\ LET user_id == CHOOSE u \in call.user : TRUE
           seat_ids == call.seat_ids
           request_id == Cardinality(Queued) + 1 IN
       IF ~SeatIdsField(seat_ids)
       THEN /\ Settle(t, Finished(call, "invalid_input", {}))
            /\ UNCHANGED streams
       ELSE IF Cardinality(seat_ids) > MaxSeatsPerBooking
       THEN /\ Settle(t, Finished(call, "rejected", {}))
            /\ UNCHANGED streams
       ELSE /\ request_id <= MaxRequests
            /\ Room(Cardinality(seat_ids))
            /\ streams' = [streams EXCEPT ![priority] =
                              Append(@, [request_id |-> request_id, user_id |-> user_id,
                                         seat_ids |-> seat_ids, priority |-> priority])]
            /\ Settle(t, [call EXCEPT !.pc = "set_status", !.request_id = request_id])
    /\ UNCHANGED <<events, dlq, subs, seats, reservations, bookings, locks, now, reclaimer, group, registry, workers>>

\* submit_reservation with the priority already decided
submit_reservation(t, user_id, seat_ids, priority) ==
    submit(t, [Call("submit", {user_id}) EXCEPT !.seat_ids = seat_ids], priority)

\* str.lower on the header values the requests carry
Lower(h) == IF h = "VIP" THEN "vip" ELSE h

\* get_user_priority: the X-User-Priority header, "none" when it is absent
get_user_priority(x_user_priority) ==
    IF x_user_priority # "none" /\ Lower(x_user_priority) \in {"high", "vip", "premium"}
    THEN "high"
    ELSE "normal"

\* an endpoint that queues every request at the priority it declares:
\* ServerDecidesPriority does not hold of it
decide_priority_as_declared(declared, user_priority) == declared

\* queue_reservation, "Determine priority": HIGH is kept for a VIP user
\* only, any other declared priority is taken as it is
decide_priority(declared, user_priority) ==
    IF declared = "high"
    THEN IF user_priority # "high" THEN "normal" ELSE "high"
    ELSE declared

\* queue_reservation: the priority is decided, then submit_reservation
queue_reservation(t, user_id, seat_ids, declared, x_user_priority) ==
    submit(t, [Call("submit", {user_id}) EXCEPT !.seat_ids = seat_ids,
                                                !.declared = declared,
                                                !.header = x_user_priority],
           decide_priority(declared, get_user_priority(x_user_priority)))

\* a service that starts a worker for each submission it takes:
\* OneInFlight does not hold of it
ensure_worker_each_time(wk) ==
    IF \A w \in Workers : wk[w].running THEN wk
    ELSE [wk EXCEPT ![CHOOSE w \in Workers :
                          ~wk[w].running /\ \A x \in Workers : x < w => wk[x].running].running = TRUE]

\* _ensure_worker: nothing to do when _workers has a worker for the event;
\* otherwise a QueueWorker is created, recorded and started, with no await
\* between the test and the record
ensure_worker(wk) ==
    IF \E w \in Workers : wk[w].running THEN wk
    ELSE [wk EXCEPT ![1].running = TRUE]

\* the rest of submit_reservation: enqueue writes status "pending", then
\* _ensure_worker starts the worker of the event if there is none
enqueue_set_status(t) ==
    /\ tasks[t].pc = "set_status" /\ tasks[t].op = "submit"
    /\ registry' = set_status(registry, tasks[t].request_id, "pending")
    /\ workers' = ensure_worker(workers)
    /\ Settle(t, Finished(tasks[t], "pending", {}))
    /\ UNCHANGED <<events, dlq, subs, seats, reservations, bookings, locks, now, reclaimer, calls, streams, group>>

\* a read that delivers the newest entry of the stream and passes over the
\* ones before it: StreamOrder does not hold of it
xreadgroup_newest(w) ==
    /\ workers[w].running /\ workers[w].pc = "read"
    /\ LET p == Priorities[workers[w].at]
           n == Len(streams[p]) IN
       /\ group.delivered[p] < n
       /\ group' = [group EXCEPT !.delivered[p] = n,
                                 !.pending = @ \cup {streams[p][n].request_id}]
       /\ workers' = [workers EXCEPT ![w].pc = "set_processing", ![w].request = {streams[p][n]}]
    /\ UNCHANGED <<events, dlq, subs, seats, reservations, bookings, locks, now, tasks, reclaimer, calls,
                   streams, registry>>

\* dequeue: XREADGROUP ">" on the stream the loop is at delivers the oldest
\* entry never delivered to the group
xreadgroup(w) ==
    /\ workers[w].running /\ workers[w].pc = "read"
    /\ LET p == Priorities[workers[w].at]
           n == group.delivered[p] IN
       /\ n < Len(streams[p])
       /\ group' = [group EXCEPT !.delivered[p] = n + 1,
                                 !.pending = @ \cup {streams[p][n + 1].request_id}]
       /\ workers' = [workers EXCEPT ![w].pc = "set_processing", ![w].request = {streams[p][n + 1]}]
    /\ UNCHANGED <<events, dlq, subs, seats, reservations, bookings, locks, now, tasks, reclaimer, calls,
                   streams, registry>>

\* dequeue when the store delivers an entry again: the stream transport is
\* at-least-once, and dequeue builds a request from whatever XREADGROUP
\* returns; here an entry that was delivered and acknowledged comes back on
\* the stream the loop is at
redeliver(w) ==
    /\ workers[w].running /\ workers[w].pc = "read"
    /\ LET p == Priorities[workers[w].at] IN
       \E n \in 1..group.delivered[p] :
           /\ streams[p][n].request_id \notin group.pending
           /\ group' = [group EXCEPT !.pending = @ \cup {streams[p][n].request_id}]
           /\ workers' = [workers EXCEPT ![w].pc = "set_processing",
                                         ![w].request = {streams[p][n]}]
    /\ UNCHANGED <<events, dlq, subs, seats, reservations, bookings, locks, now, tasks, reclaimer, calls,
                   streams, registry>>

\* dequeue: the blocking read of an empty stream times out; the loop goes on
\* to the next priority and, after the last one, _run calls dequeue again
read_timeout(w) ==
    /\ workers[w].running /\ workers[w].pc = "read"
    /\ group.delivered[Priorities[workers[w].at]] = Len(streams[Priorities[workers[w].at]])
    /\ workers' = [workers EXCEPT ![w].at = IF @ = Len(Priorities) THEN 1 ELSE @ + 1]
    /\ UNCHANGED <<events, dlq, subs, seats, reservations, bookings, locks, now, tasks, reclaimer, calls,
                   streams, group, registry>>

\* dequeue: status "processing" for the entry just read
dequeue_set_status(w) ==
    /\ workers[w].pc = "set_processing"
    /\ LET request == CHOOSE q \in workers[w].request : TRUE IN
       registry' = set_status(registry, request.request_id, "processing")
    /\ workers' = [workers EXCEPT ![w].pc = "process"]
    /\ UNCHANGED <<events, dlq, subs, seats, reservations, bookings, locks, now, tasks, reclaimer, calls,
                   streams, group>>

\* _process_reservation: _do_reserve in a transaction of its own; an error
\* becomes a result with success false and the error text
process_reservation(w) ==
    /\ workers[w].pc = "process"
    /\ LET request == CHOOSE q \in workers[w].request : TRUE
           r == do_reserve(seats, reservations, EventId, request.seat_ids,
                           request.user_id, now) IN
       /\ seats' = r.seats
       /\ reservations' = r.reservations
       /\ workers' = [workers EXCEPT ![w].pc = "set_result",
                                     ![w].out = {[success |-> r.result = "ok",
                                                  message |-> r.result,
                                                  labels |-> r.labels]}]
    /\ UNCHANGED <<events, dlq, subs, bookings, locks, now, tasks, reclaimer, calls, streams, group, registry>>

\* get_request_status as the subscription uses it: the status of the
\* request, "none" when it has no status hash
get_request_status(reg, request_id) == reg[request_id].status

\* the message type the subscription loop picks for a status
WSMessageType(status) ==
    IF status = "completed" THEN "reservation_complete"
    ELSE IF status = "failed" THEN "reservation_failed"
    ELSE "status_update"

\* websocket_reservation_status up to its loop: the connection is accepted,
\* the status is read and, if there is one, sent as a status_update and
\* remembered as last_status
ws_connect(c, request_id) ==
    /\ subs[c].pc = "closed"
    /\ LET status == get_request_status(registry, request_id) IN
       subs' = [subs EXCEPT ![c] = [pc |-> "poll", request_id |-> request_id,
                                    last_status |-> status,
                                    sent |-> IF status = "none" THEN "none"
                                             ELSE "status_update"]]
    /\ UNCHANGED <<events, dlq, seats, reservations, bookings, locks, now, tasks, reclaimer,
                   calls, queueVars>>

\* websocket_reservation_status, one round of the loop after the 5 s wait:
\* a status that differs from last_status is sent, and the loop ends when
\* that status is completed or failed
ws_poll(c) ==
    /\ subs[c].pc = "poll"
    /\ LET current_status == get_request_status(registry, subs[c].request_id) IN
       IF current_status # "none" /\ current_status # subs[c].last_status
       THEN subs' = [subs EXCEPT ![c].last_status = current_status,
                                 ![c].sent = WSMessageType(current_status),
                                 ![c].pc = IF current_status \in {"completed", "failed"}
                                           THEN "ended" ELSE "poll"]
       ELSE UNCHANGED subs
    /\ UNCHANGED <<events, dlq, seats, reservations, bookings, locks, now, tasks, reclaimer,
                   calls, queueVars>>

\* QueueWorker.stop, from stop_all_workers: _running is cleared and the task
\* is cancelled at the await it is at; CancelledError passes the inner
\* `except Exception` and ends the loop, so what the worker had in flight is
\* dropped where it stands; _workers is cleared
stop(w) ==
    /\ workers[w].running
    /\ workers' = [workers EXCEPT ![w] = IdleWorker]
    /\ UNCHANGED <<events, dlq, subs, seats, reservations, bookings, locks, now, tasks, reclaimer,
                   calls, streams, group, registry>>

\* _run when the callback raises instead of returning a result: the session
\* of _process_reservation is opened outside its try, so a database that
\* cannot be reached surfaces in _run; nothing of the request is committed
callback_raises(w) ==
    /\ workers[w].pc = "process"
    /\ workers' = [workers EXCEPT ![w].pc = "move_to_dlq", ![w].raised = TRUE,
                                  ![w].out = {[success |-> FALSE,
                                               message |-> "processing_failed",
                                               labels |-> {}]}]
    /\ UNCHANGED <<events, dlq, subs, seats, reservations, bookings, locks, now, tasks, reclaimer,
                   calls, streams, group, registry>>

\* _run, except branch: move_to_dlq adds the request and the error text to
\* the dead-letter stream; set_result follows, and no acknowledge
move_to_dlq(w) ==
    /\ workers[w].pc = "move_to_dlq"
    /\ LET request == CHOOSE q \in workers[w].request : TRUE
           out == CHOOSE o \in workers[w].out : TRUE IN
       dlq' = Append(dlq, [request_id |-> request.request_id, error |-> out.message])
    /\ workers' = [workers EXCEPT ![w].pc = "set_result"]
    /\ UNCHANGED <<events, subs, seats, reservations, bookings, locks, now, tasks, reclaimer, calls,
                   streams, group, registry>>

\* a set_result that writes the status where the result belongs, so that
\* the status is terminal and no result is stored: ResultBeforeStatus does
\* not hold of it
set_result_status_first(w) ==
    /\ workers[w].pc = "set_result"
    /\ LET request == CHOOSE q \in workers[w].request : TRUE
           out == CHOOSE o \in workers[w].out : TRUE IN
       registry' = set_status(registry, request.request_id,
                              IF out.success THEN "completed" ELSE "failed")
    /\ workers' = [workers EXCEPT ![w].pc = "set_result_status"]
    /\ UNCHANGED <<events, dlq, subs, seats, reservations, bookings, locks, now, tasks, reclaimer,
                   calls, streams, group>>

\* set_result: HSET on the result hash
set_result(w) ==
    /\ workers[w].pc = "set_result"
    /\ LET request == CHOOSE q \in workers[w].request : TRUE IN
       registry' = [registry EXCEPT ![request.request_id].result = workers[w].out]
    /\ workers' = [workers EXCEPT ![w].pc = "set_result_status"]
    /\ UNCHANGED <<events, dlq, subs, seats, reservations, bookings, locks, now, tasks, reclaimer, calls,
                   streams, group>>

\* set_result: the status that goes with the result
set_result_status(w) ==
    /\ workers[w].pc = "set_result_status"
    /\ LET request == CHOOSE q \in workers[w].request : TRUE
           out == CHOOSE o \in workers[w].out : TRUE IN
       registry' = set_status(registry, request.request_id,
                              IF out.success THEN "completed" ELSE "failed")
    /\ workers' = [workers EXCEPT ![w] = IF @.raised
                                         THEN [IdleWorker EXCEPT !.running = TRUE]
                                         ELSE [@ EXCEPT !.pc = "ack"]]
    /\ UNCHANGED <<events, dlq, subs, seats, reservations, bookings, locks, now, tasks, reclaimer, calls,
                   streams, group>>

\* acknowledge: XACK takes the entry off the pending list
acknowledge(w) ==
    /\ workers[w].pc = "ack"
    /\ LET request == CHOOSE q \in workers[w].request : TRUE IN
       group' = [group EXCEPT !.pending = @ \ {request.request_id}]
    /\ workers' = [workers EXCEPT ![w] = [IdleWorker EXCEPT !.running = TRUE]]
    /\ UNCHANGED <<events, dlq, subs, seats, reservations, bookings, locks, now, tasks, reclaimer, calls,
                   streams, registry>>

(***************************************************************************)
(* The system                                                              *)
(***************************************************************************)
Next ==
    \/ \E t \in Tasks : Return(t)
    \/ Running
       /\ \E t \in Tasks, u \in Users, S \in RequestSets : reserve_seats(t, u, S)
    \/ Running /\ \E t \in Tasks : reserve_seats_locked(t)
    \/ Running
       /\ \E t \in Tasks, u \in Users, r \in 1..MaxReservations : cancel_reservation(t, u, r)
    \/ Running /\ \E t \in Tasks : cancel_reservation_cs(t)
    \/ Running
       /\ \E t \in Tasks, u \in Users, r \in 1..MaxReservations, m \in ExtendTicks :
              extend_reservation(t, u, r, m)
    \/ Running /\ \E t \in Tasks : extend_reservation_cs(t)
    \/ Running
       /\ \E t \in Tasks, u \in Users, S \in RequestSets : create_booking(t, u, S)
    \/ Running /\ \E t \in Tasks : create_booking_locked(t)
    \/ Running
       /\ \E t \in Tasks, b \in 1..MaxBookings : confirm_payment(t, b)
    \/ Running /\ \E t \in Tasks : confirm_payment_cs(t)
    \/ Running
       /\ \E t \in Tasks, b \in 1..MaxBookings : fail_payment(t, b)
    \/ Running /\ \E t \in Tasks : fail_payment_cs(t)
    \/ Running
       /\ \E t \in Tasks, u \in Users, b \in 1..MaxBookings : cancel_booking(t, u, b)
    \/ Running /\ \E t \in Tasks : cancel_booking_cs(t)
    \/ Running /\ \E t \in Tasks : AcquireStep(t)
    \/ Running /\ \E t \in Tasks : ReleaseStep(t)
    \/ Running
       /\ \E t \in Tasks, u \in Users, S \in RequestSets, p \in Range(Priorities) : submit_reservation(t, u, S, p)
    \/ Running /\ \E t \in Tasks : enqueue_set_status(t)
    \/ Running /\ \E w \in Workers : xreadgroup(w)
    \/ Running /\ \E w \in Workers : read_timeout(w)
    \/ Running /\ \E w \in Workers : dequeue_set_status(w)
    \/ Running /\ \E w \in Workers : process_reservation(w)
    \/ Running /\ \E w \in Workers : set_result(w)
    \/ Running /\ \E w \in Workers : set_result_status(w)
    \/ Running /\ \E w \in Workers : acknowledge(w)
    \/ Running /\ expire_old_reservations
    \/ Running /\ expire_old_reservations_commit
    \/ Running /\ Tick

Spec == Init /\ [][Next]_vars

\* contended reservation: reserve through the lock path and through the
\* queue worker, every request at normal priority, and nothing else; the
\* requests contend for seat 1, and two of them have a seat list of a size
\* the API does not accept
ReserveSets == {{1}, {1, 2}, {3}, {1, 4}, {}, {1, 2, 3, 4}}

NextReserve ==
    \/ \E t \in Tasks : Return(t)
    \/ Running /\ calls < MaxContenders
       /\ \E t \in Tasks, u \in Users, S \in ReserveSets : reserve_seats(t, u, S)
    \/ Running /\ calls < MaxContenders
       /\ \E t \in Tasks, u \in Users, S \in ReserveSets : submit_reservation(t, u, S, "normal")
    \/ Running /\ \E t \in Tasks : reserve_seats_locked(t)
    \/ Running /\ \E t \in Tasks : AcquireStep(t)
    \/ Running /\ \E t \in Tasks : ReleaseStep(t)
    \/ Running /\ \E t \in Tasks : enqueue_set_status(t)
    \/ Running /\ \E w \in Workers : xreadgroup(w)
    \/ Running /\ \E w \in Workers : read_timeout(w)
    \/ Running /\ \E w \in Workers : dequeue_set_status(w)
    \/ Running /\ \E w \in Workers : process_reservation(w)
    \/ Running /\ \E w \in Workers : set_result(w)
    \/ Running /\ \E w \in Workers : set_result_status(w)
    \/ Running /\ \E w \in Workers : acknowledge(w)

SpecReserve == Init /\ [][NextReserve]_vars

\* the hold cycle: reserve, cancel, extend, the reclaimer and the clock
NextHold ==
    \/ \E t \in Tasks : Return(t)
    \/ Running
       /\ \E t \in Tasks, u \in Users, S \in RequestSets : reserve_seats(t, u, S)
    \/ Running /\ \E t \in Tasks : reserve_seats_locked(t)
    \/ Running
       /\ \E t \in Tasks, u \in Users, r \in 1..MaxReservations : cancel_reservation(t, u, r)
    \/ Running /\ \E t \in Tasks : cancel_reservation_cs(t)
    \/ Running
       /\ \E t \in Tasks, u \in Users, r \in 1..MaxReservations, m \in ExtendTicks :
              extend_reservation(t, u, r, m)
    \/ Running /\ \E t \in Tasks : extend_reservation_cs(t)
    \/ Running /\ \E t \in Tasks : AcquireStep(t)
    \/ Running /\ \E t \in Tasks : ReleaseStep(t)
    \/ Running /\ expire_old_reservations
    \/ Running /\ expire_old_reservations_commit
    \/ Running /\ Tick

SpecHold == Init /\ [][NextHold]_vars

\* the sale cycle: reserve, book, the payment outcome and the cancellations
NextSale ==
    \/ \E t \in Tasks : Return(t)
    \/ Running
       /\ \E t \in Tasks, u \in Users, S \in RequestSets : reserve_seats(t, u, S)
    \/ Running /\ \E t \in Tasks : reserve_seats_locked(t)
    \/ Running
       /\ \E t \in Tasks, u \in Users, r \in 1..MaxReservations : cancel_reservation(t, u, r)
    \/ Running /\ \E t \in Tasks : cancel_reservation_cs(t)
    \/ Running
       /\ \E t \in Tasks, u \in Users, S \in RequestSets : create_booking(t, u, S)
    \/ Running /\ \E t \in Tasks : create_booking_locked(t)
    \/ Running
       /\ \E t \in Tasks, b \in 1..MaxBookings : confirm_payment(t, b)
    \/ Running /\ \E t \in Tasks : confirm_payment_cs(t)
    \/ Running
       /\ \E t \in Tasks, b \in 1..MaxBookings : fail_payment(t, b)
    \/ Running /\ \E t \in Tasks : fail_payment_cs(t)
    \/ Running
       /\ \E t \in Tasks, u \in Users, b \in 1..MaxBookings : cancel_booking(t, u, b)
    \/ Running /\ \E t \in Tasks : cancel_booking_cs(t)
    \/ Running /\ \E t \in Tasks : AcquireStep(t)
    \/ Running /\ \E t \in Tasks : ReleaseStep(t)

SpecSale == Init /\ [][NextSale]_vars

\* one call at a time: a handler, or a pass of the reclaimer, starts when
\* nothing else is in flight; the requests name seats of the event
SerialSets == {{1}, {2}, {1, 2}}

Quiet == (\A t \in Tasks : Free(t)) /\ reclaimer.pc = "sleep"

NextSerial ==
    \/ \E t \in Tasks : Return(t)
    \/ Running /\ Quiet /\ calls < MaxSerialCalls
       /\ \E t \in Tasks, u \in Users, S \in SerialSets : reserve_seats(t, u, S)
    \/ Running /\ Quiet /\ calls < MaxSerialCalls
       /\ \E t \in Tasks, u \in Users, r \in 1..MaxReservations : cancel_reservation(t, u, r)
    \/ Running /\ Quiet /\ calls < MaxSerialCalls
       /\ \E t \in Tasks, u \in Users, r \in 1..MaxReservations, m \in ExtendTicks :
              extend_reservation(t, u, r, m)
    \/ Running /\ Quiet /\ calls < MaxSerialCalls
       /\ \E t \in Tasks, u \in Users, S \in SerialSets : create_booking(t, u, S)
    \/ Running /\ Quiet /\ calls < MaxSerialCalls
       /\ \E t \in Tasks, b \in 1..MaxBookings : confirm_payment(t, b)
    \/ Running /\ Quiet /\ calls < MaxSerialCalls
       /\ \E t \in Tasks, b \in 1..MaxBookings : fail_payment(t, b)
    \/ Running /\ Quiet /\ calls < MaxSerialCalls
       /\ \E t \in Tasks, u \in Users, b \in 1..MaxBookings : cancel_booking(t, u, b)
    \/ Running /\ Quiet /\ expire_old_reservations
    \/ Running /\ \E t \in Tasks : reserve_seats_locked(t)
    \/ Running /\ \E t \in Tasks : cancel_reservation_cs(t)
    \/ Running /\ \E t \in Tasks : extend_reservation_cs(t)
    \/ Running /\ \E t \in Tasks : create_booking_locked(t)
    \/ Running /\ \E t \in Tasks : confirm_payment_cs(t)
    \/ Running /\ \E t \in Tasks : fail_payment_cs(t)
    \/ Running /\ \E t \in Tasks : cancel_booking_cs(t)
    \/ Running /\ \E t \in Tasks : AcquireStep(t)
    \/ Running /\ \E t \in Tasks : ReleaseStep(t)
    \/ Running /\ expire_old_reservations_commit
    \/ Running /\ Tick

SpecSerial == Init /\ [][NextSerial]_vars

\* booking against the clock: reserve, book, the reclaimer and the clock;
\* the holds are on seats of the event, the book requests name held seats,
\* released seats, a seat of another event and a seat that does not exist
HoldSets == {{1}, {1, 2}}
BookSets == {{1}, {1, 2}, {3}, {1, 4}}

NextBook ==
    \/ \E t \in Tasks : Return(t)
    \/ Running /\ calls < MaxBookCalls
       /\ \E t \in Tasks, u \in Users, S \in HoldSets : reserve_seats(t, u, S)
    \/ Running /\ calls < MaxBookCalls
       /\ \E t \in Tasks, u \in Users, S \in BookSets \cup {{}} : create_booking(t, u, S)
    \/ Running /\ \E t \in Tasks : reserve_seats_locked(t)
    \/ Running /\ \E t \in Tasks : create_booking_locked(t)
    \/ Running /\ \E t \in Tasks : AcquireStep(t)
    \/ Running /\ \E t \in Tasks : ReleaseStep(t)
    \/ Running /\ expire_old_reservations
    \/ Running /\ expire_old_reservations_commit
    \/ Running /\ Tick

SpecBook == Init /\ [][NextBook]_vars

\* the queue on its own: one user submits requests for seat 1 at high and
\* at normal priority, and the worker of the event serves them
QueuePriorities == {"high", "normal"}

NextQueue ==
    \/ \E t \in Tasks : Return(t)
    \/ Running
       /\ \E t \in Tasks, p \in QueuePriorities : submit_reservation(t, "U1", {1}, p)
    \/ Running /\ \E t \in Tasks : enqueue_set_status(t)
    \/ Running /\ \E w \in Workers : xreadgroup(w)
    \/ Running /\ \E w \in Workers : read_timeout(w)
    \/ Running /\ \E w \in Workers : dequeue_set_status(w)
    \/ Running /\ \E w \in Workers : process_reservation(w)
    \/ Running /\ \E w \in Workers : set_result(w)
    \/ Running /\ \E w \in Workers : set_result_status(w)
    \/ Running /\ \E w \in Workers : acknowledge(w)

SpecQueue == Init /\ [][NextQueue]_vars

\* the queue with its scheduling: a request handler that can continue does,
\* and the worker task, once started, is run by the event loop until it is
\* stopped; a blocking read that finds nothing times out
FairQueue ==
    /\ \A t \in Tasks : WF_vars(Return(t))
    /\ \A t \in Tasks : WF_vars(Running /\ enqueue_set_status(t))
    /\ \A w \in Workers :
          /\ WF_vars(Running /\ xreadgroup(w))
          /\ WF_vars(Running /\ read_timeout(w))
          /\ WF_vars(Running /\ dequeue_set_status(w))
          /\ WF_vars(Running /\ process_reservation(w))
          /\ WF_vars(Running /\ set_result(w))
          /\ WF_vars(Running /\ set_result_status(w))
          /\ WF_vars(Running /\ acknowledge(w))

SpecQueueFair == SpecQueue /\ FairQueue

\* the queue with a callback that may raise: the except branch of _run
NextDlq ==
    \/ NextQueue
    \/ Running /\ \E w \in Workers : callback_raises(w)
    \/ Running /\ \E w \in Workers : move_to_dlq(w)

SpecDlq == Init /\ [][NextDlq]_vars

\* the queue with shutdowns: the workers may be stopped at any moment, and
\* the next submission starts the worker of the event again
NextStop ==
    \/ NextQueue
    \/ Running /\ \E w \in Workers : stop(w)

SpecStop == Init /\ [][NextStop]_vars

\* shutdowns are not owed to anyone: fairness is that of the queue
SpecStopFair == SpecStop /\ FairQueue

\* the queue with subscribers: a client opens a websocket on a request id
\* at any moment and the endpoint polls the status of the request
NextSubscribe ==
    \/ NextQueue
    \/ Running /\ \E c \in Subscribers, r \in RequestIds : ws_connect(c, r)
    \/ Running /\ \E c \in Subscribers : ws_poll(c)

SpecSubscribe == Init /\ [][NextSubscribe]_vars

\* the endpoint's loop comes round every 5 s as long as the client stays
SpecSubscribeFair ==
    SpecSubscribe /\ FairQueue /\ \A c \in Subscribers : WF_vars(Running /\ ws_poll(c))

\* the lock path with leases that can run out: MaxContenders reserve calls
\* for seats of the event, the steps of multi_lock and the expiry of keys
LockSets == {{1, 2}, {2}}

NextLease ==
    \/ \E t \in Tasks : Return(t)
    \/ Running /\ calls < MaxContenders
       /\ \E t \in Tasks, u \in Users, S \in LockSets : reserve_seats(t, u, S)
    \/ Running /\ \E t \in Tasks : reserve_seats_locked(t)
    \/ Running /\ \E t \in Tasks : AcquireStep(t)
    \/ Running /\ \E t \in Tasks : ReleaseStep(t)
    \/ Running /\ \E k \in ReqSeatIds : lease_expires(k)

SpecLease == Init /\ [][NextLease]_vars

\* the lock path with its scheduling: a handler that can take its next step
\* does (its sleep between two attempts ends, its store command returns);
\* nothing is assumed about leases
FairLease ==
    /\ \A t \in Tasks : WF_vars(Return(t))
    /\ \A t \in Tasks :
          /\ WF_vars(Running /\ AcquireStep(t))
          /\ WF_vars(Running /\ reserve_seats_locked(t))
          /\ WF_vars(Running /\ ReleaseStep(t))

SpecLeaseFair == SpecLease /\ FairLease

\* the v2 endpoint with its decision on the priority: one user submits
\* MaxContenders requests for seat 1, declaring any priority under any
\* header, and the worker of the event serves them
Headers == {"none", "VIP", "premium", "basic"}

NextPriority ==
    \/ \E t \in Tasks : Return(t)
    \/ Running /\ calls < MaxContenders
       /\ \E t \in Tasks, d \in Range(Priorities), h \in Headers :
              queue_reservation(t, "U1", {1}, d, h)
    \/ Running /\ \E t \in Tasks : enqueue_set_status(t)
    \/ Running /\ \E w \in Workers : xreadgroup(w)
    \/ Running /\ \E w \in Workers : read_timeout(w)
    \/ Running /\ \E w \in Workers : dequeue_set_status(w)
    \/ Running /\ \E w \in Workers : process_reservation(w)
    \/ Running /\ \E w \in Workers : set_result(w)
    \/ Running /\ \E w \in Workers : set_result_status(w)
    \/ Running /\ \E w \in Workers : acknowledge(w)

SpecPriority == Init /\ [][NextPriority]_vars

\* the queue over a transport that may deliver an entry twice
NextRedelivery ==
    \/ NextQueue
    \/ Running /\ \E w \in Workers : redeliver(w)

SpecRedelivery == Init /\ [][NextRedelivery]_vars

(***************************************************************************)
(* Properties                                                              *)
(***************************************************************************)
\* the seats of the event requests are made for
ValidSeats == {s \in SeatIds : SeatEvent(s) = EventId}

\* seat s is held by user u: RESERVED by u, with u's ACTIVE reservation the
\* only ACTIVE one
HeldBy(s, u) ==
    /\ seats[s].status = "RESERVED"
    /\ seats[s].reserved_by = {u}
    /\ Cardinality(ActiveOn(reservations, s)) = 1
    /\ \A i \in ActiveOn(reservations, s) : reservations[i].user_id = u

\* C1: every seat has at most one ACTIVE reservation, and a RESERVED seat has
\* its holder and its reserved_until set and exactly one ACTIVE reservation
NoDoubleHold ==
    \A s \in SeatIds :
        /\ Cardinality(ActiveOn(reservations, s)) <= 1
        /\ seats[s].status = "RESERVED" =>
              /\ seats[s].reserved_by # NULL
              /\ seats[s].reserved_until # NULL
              /\ Cardinality(ActiveOn(reservations, s)) = 1

\* the reserve calls that have finished, with what the caller is told: the
\* v1 calls about to return and the v2 requests whose result is written
FinishedReserves ==
    {[path |-> "v1", user |-> CHOOSE u \in tasks[t].user : TRUE,
      seat_ids |-> tasks[t].seat_ids, result |-> tasks[t].result,
      labels |-> tasks[t].labels] :
        t \in {x \in Tasks : tasks[x].pc = "done" /\ tasks[x].op = "reserve"}}
    \cup
    {[path |-> "v2", user |-> q.user_id, seat_ids |-> q.seat_ids,
      result |-> (CHOOSE o \in registry[q.request_id].result : TRUE).message,
      labels |-> (CHOOSE o \in registry[q.request_id].result : TRUE).labels] :
        q \in {x \in Queued : registry[x.request_id].result # NULL}}

\* a finished call that won: it holds every seat it asked for
Won(c) == c.result = "ok" /\ \A s \in c.seat_ids : HeldBy(s, c.user)

\* a finished call that lost to a hold: the error names seats of the request,
\* and every seat it names is held
LostToHold(c) ==
    /\ c.result = "unavailable"
    /\ c.labels # {}
    /\ c.labels \subseteq {SeatNumber(s) : s \in c.seat_ids}
    /\ \A s \in c.seat_ids : SeatNumber(s) \in c.labels => \E u \in Users : HeldBy(s, u)

\* one reservation row for each held seat and no other row: a call that
\* lost has created none
OneRowPerHold ==
    /\ Len(reservations) = Cardinality({s \in SeatIds : seats[s].status = "RESERVED"})
    /\ \A s \in SeatIds : seats[s].status = "RESERVED" => \E u \in Users : HeldBy(s, u)

\* a reserve of another user for one of the seats of call c: in flight on
\* the lock path, queued, or holding the seat
Rival(c) ==
    \/ \E t \in Tasks : /\ InFlight(t) /\ tasks[t].op \in {"reserve", "submit"}
                        /\ tasks[t].user # {c.user}
                        /\ tasks[t].seat_ids \cap c.seat_ids # {}
    \/ \E q \in Queued : q.user_id # c.user /\ q.seat_ids \cap c.seat_ids # {}
    \/ \E s \in c.seat_ids : seats[s].reserved_by \notin {NULL, {c.user}}

\* the finished reserve calls for seats of the event that had a rival
Contended == {c \in FinishedReserves : c.seat_ids \subseteq ValidSeats /\ Rival(c)}

\* C2 as stated: when users contend for seats, the reserve that succeeds
\* holds its seats with one ACTIVE reservation each, and every other one
\* fails with the unavailable error that names the seat and creates no
\* reservation
ContendedReserveAsStated ==
    /\ OneRowPerHold
    /\ \A c \in Contended : Won(c) \/ LostToHold(c)

\* C2, amended: as above, except that a v1 call that exhausts its lock
\* retries while another call holds the lock of a seat fails with the
\* lock-acquisition error instead; it creates no reservation either
ContendedReserve ==
    /\ OneRowPerHold
    /\ \A c \in Contended :
          \/ Won(c)
          \/ LostToHold(c)
          \/ c.path = "v1" /\ c.result = "lock_failed" /\ c.labels = {}

\* two users contend for seat 1, one through the queue worker and one through
\* the lock path: the worker's request has won and is still being finished
\* when the v1 call returns the unavailable error naming seat "10"
ContendedReserveWitness ==
    \E t \in Tasks :
        /\ tasks[t].pc = "done" /\ tasks[t].op = "reserve"
        /\ tasks[t].seat_ids = {1}
        /\ tasks[t].result = "unavailable" /\ tasks[t].labels = {"10"}
        /\ workers[1].pc = "set_result"
        /\ \E q \in workers[1].request, o \in workers[1].out :
              /\ o.success
              /\ q.seat_ids = {1}
              /\ {q.user_id} # tasks[t].user
              /\ HeldBy(1, q.user_id)

\* C3: each seat of a booking that is PENDING or CONFIRMED is BOOKED with
\* that booking as its owning booking
NoDoubleSale ==
    \A b \in DOMAIN bookings :
        bookings[b].status \in {"PENDING", "CONFIRMED"} =>
            \A s \in bookings[b].booking_seats :
                seats[s].status = "BOOKED" /\ seats[s].booking_id = {b}

\* a request that cannot be served in full: a seat is missing, belongs to
\* another event or is not AVAILABLE
Unservable(seat_ids) ==
    \E s \in seat_ids : \/ s \notin SeatIds
                        \/ SeatEvent(s) # EventId
                        \/ seats[s].status # "AVAILABLE"

\* C4: a reserve whose request cannot be served in full fails, changes no
\* seat and creates no reservation row, on the lock path and in the worker
ReserveAllOrNothing ==
    [][/\ \A t \in Tasks :
             (/\ tasks[t].pc = "cs" /\ tasks[t].op = "reserve"
              /\ tasks'[t].pc # "cs"
              /\ Unservable(tasks[t].seat_ids))
             => /\ tasks'[t].result \in {"not_found", "wrong_event", "unavailable"}
                /\ seats' = seats
                /\ reservations' = reservations
       /\ \A w \in Workers :
             (/\ workers[w].pc = "process" /\ workers'[w].pc = "set_result"
              /\ \E q \in workers[w].request : Unservable(q.seat_ids))
             => /\ \A o \in workers'[w].out : ~o.success
                /\ seats' = seats
                /\ reservations' = reservations]_vars

\* seat 1 is held, seat 2 is free, and a v1 reserve of both has failed
\* naming seat "10": seat 2 is still AVAILABLE and untouched
ReserveAllOrNothingWitness ==
    \E t \in Tasks :
        /\ tasks[t].pc = "done" /\ tasks[t].op = "reserve"
        /\ tasks[t].seat_ids = {1, 2}
        /\ tasks[t].result = "unavailable" /\ tasks[t].labels = {"10"}
        /\ seats[1].status = "RESERVED"
        /\ seats[2] = NewSeat
        /\ Len(reservations) = 1

\* C5: an AVAILABLE seat has no holder, no reserved_until and no owning booking
AvailableIsClean ==
    \A s \in SeatIds :
        seats[s].status = "AVAILABLE" =>
            /\ seats[s].reserved_by = NULL
            /\ seats[s].reserved_until = NULL
            /\ seats[s].booking_id = NULL

\* C6: a BOOKED seat has its owning booking set, holder and reserved_until
\* cleared, and a reservation that is ACTIVE or CONFIRMED
BookedIsBacked ==
    \A s \in SeatIds :
        seats[s].status = "BOOKED" =>
            /\ seats[s].booking_id # NULL
            /\ seats[s].reserved_by = NULL
            /\ seats[s].reserved_until = NULL
            /\ \E i \in DOMAIN reservations :
                  /\ reservations[i].seat_id = s
                  /\ reservations[i].status \in {"ACTIVE", "CONFIRMED"}

\* C7: a step that changes a seat row strictly increases the version of
\* that row
VersionCountsMutations ==
    [][\A s \in SeatIds : seats'[s] # seats[s] => seats'[s].version > seats[s].version]_vars

\* C8: a reservation that has left ACTIVE keeps its status
ReservationTerminal ==
    [][\A i \in DOMAIN reservations :
          reservations[i].status # "ACTIVE" =>
              reservations'[i].status = reservations[i].status]_vars

\* C9: a CONFIRMED booking is never set FAILED, a FAILED or CANCELLED booking
\* keeps its status, and a confirm_payment or fail_payment that writes when
\* the booking is no longer PENDING changes nothing and fails as not pending
PaymentOnlyOnPending ==
    [][/\ \A b \in DOMAIN bookings :
             /\ bookings[b].status = "CONFIRMED" => bookings'[b].status # "FAILED"
             /\ bookings[b].status \in {"FAILED", "CANCELLED"} =>
                   bookings'[b].status = bookings[b].status
       /\ \A t \in Tasks :
             (/\ tasks[t].op \in {"confirm_payment", "fail_payment"}
              /\ tasks[t].pc \in {"commit", "cs"}
              /\ tasks'[t].pc \notin {"commit", "cs"}
              /\ bookings[tasks[t].bid].status # "PENDING")
             => /\ bookings' = bookings
                /\ tasks'[t].result = "not_pending"]_vars

\* a seat back in its released state
Released(seat) ==
    /\ seat.status = "AVAILABLE"
    /\ seat.reserved_by = NULL
    /\ seat.reserved_until = NULL
    /\ seat.booking_id = NULL

\* C10: in a serial history no step lowers a version and a reserve raises
\* the version of each seat it takes; the cancel_reservation that follows
\* leaves the seat released with a greater version still and the
\* reservation CANCELLED; the cancel_booking that follows reserve and book
\* leaves every seat of the booking released with a greater version and the
\* booking CANCELLED
ReleaseRoundTrips ==
    [][/\ \A s \in SeatIds : seats'[s].version >= seats[s].version
       /\ \A t \in Tasks :
             (/\ tasks[t].pc = "cs" /\ tasks[t].op = "reserve"
              /\ tasks'[t].result = "ok")
             => \A s \in tasks[t].seat_ids : seats'[s].version > seats[s].version
       /\ \A t \in Tasks :
             (/\ tasks[t].pc = "cs" /\ tasks[t].op = "cancel_reservation"
              /\ tasks'[t].pc # "cs")
             => LET rid == tasks[t].rid
                    s == reservations[rid].seat_id IN
                /\ Released(seats'[s])
                /\ seats'[s].version > seats[s].version
                /\ reservations'[rid].status = "CANCELLED"
       /\ \A t \in Tasks :
             (/\ tasks[t].pc = "cs" /\ tasks[t].op = "cancel_booking"
              /\ tasks'[t].pc # "cs")
             => LET bid == tasks[t].bid IN
                /\ \A s \in bookings[bid].booking_seats :
                      /\ Released(seats'[s])
                      /\ seats'[s].version > seats[s].version
                /\ bookings'[bid].status = "CANCELLED"]_vars

\* both round trips have run: seats 1 and 2 were reserved together, the hold
\* of seat 1 was cancelled, seat 2 was booked and the booking cancelled
ReleaseRoundTripsWitness ==
    /\ Len(reservations) = 2 /\ Len(bookings) = 1
    /\ reservations[1].status = "CANCELLED"
    /\ bookings[1].status = "CANCELLED" /\ bookings[1].booking_seats = {2}
    /\ Released(seats[1]) /\ seats[1].version = 2
    /\ Released(seats[2]) /\ seats[2].version = 3

\* C11: the fail_payment that writes while the booking is PENDING leaves the
\* booking FAILED with payment status FAILED and every seat of the booking
\* AVAILABLE, holder and owning booking cleared, version one higher
FailPaymentReleases ==
    [][\A t \in Tasks :
          (/\ tasks[t].pc = "cs" /\ tasks[t].op = "fail_payment"
           /\ tasks'[t].pc # "cs"
           /\ bookings[tasks[t].bid].status = "PENDING")
          => LET bid == tasks[t].bid IN
             /\ bookings'[bid].status = "FAILED"
             /\ bookings'[bid].payment_status = "FAILED"
             /\ \A s \in bookings[bid].booking_seats :
                   /\ Released(seats'[s])
                   /\ seats'[s].version = seats[s].version + 1]_vars

\* seats 1 and 2 were reserved and booked together and the payment of the
\* booking has failed: both seats are released at version 3
FailPaymentReleasesWitness ==
    /\ Len(bookings) = 1
    /\ bookings[1].status = "FAILED" /\ bookings[1].payment_status = "FAILED"
    /\ bookings[1].booking_seats = {1, 2}
    /\ \A s \in {1, 2} : Released(seats[s]) /\ seats[s].version = 3

\* every seat of the request exists, belongs to the event, is RESERVED and is
\* held by the user
Bookable(seat_ids, user_id) ==
    /\ seat_ids # {}
    /\ \A s \in seat_ids : /\ s \in SeatIds
                            /\ SeatEvent(s) = EventId
                            /\ seats[s].status = "RESERVED"
                            /\ seats[s].reserved_by = {user_id}

\* C12: a book whose seats are not all existing seats of the event that the
\* caller holds RESERVED fails, creates no booking and changes no seat and no
\* reservation
BookNeedsHold ==
    [][/\ \A t \in Tasks :
             (/\ tasks[t].pc = "cs" /\ tasks[t].op = "book"
              /\ tasks'[t].pc # "cs"
              /\ ~Bookable(tasks[t].seat_ids, CHOOSE u \in tasks[t].user : TRUE))
             => /\ tasks'[t].result \in {"not_found", "wrong_event",
                                          "not_reserved", "not_yours"}
                /\ seats' = seats
                /\ reservations' = reservations
                /\ bookings' = bookings
       /\ \A t \in Tasks :
             (tasks[t].pc = "idle" /\ tasks'[t].op = "book" /\ tasks'[t].seat_ids = {})
             => tasks'[t].pc = "done" /\ tasks'[t].result = "invalid"
       /\ bookings' # bookings =>
             \E t \in Tasks :
                 /\ tasks[t].pc = "cs" /\ tasks[t].op = "book"
                 /\ Bookable(tasks[t].seat_ids, CHOOSE u \in tasks[t].user : TRUE)]_vars

\* the hold of seat 1 ran out and the reclaimer released it; the book of the
\* former holder has failed because the seat is not reserved
BookNeedsHoldWitness ==
    \E t \in Tasks :
        /\ tasks[t].pc = "done" /\ tasks[t].op = "book"
        /\ tasks[t].seat_ids = {1}
        /\ tasks[t].result = "not_reserved"
        /\ Len(reservations) = 1
        /\ reservations[1].status = "EXPIRED" /\ {reservations[1].user_id} = tasks[t].user
        /\ Released(seats[1]) /\ seats[1].version = 2
        /\ bookings = <<>>

\* C13: the reclaimer expires a reservation only when its deadline has
\* passed, and the step that expires it leaves the seat released, with its
\* version one higher
ReclaimerExpiresOverdue ==
    [][\A i \in DOMAIN reservations :
          (reservations[i].status = "ACTIVE" /\ reservations'[i].status = "EXPIRED")
          => /\ reservations[i].expires_at < now
             /\ LET s == reservations[i].seat_id IN
                /\ Released(seats'[s])
                /\ seats'[s].version = seats[s].version + 1]_vars

\* C14: the extend_reservation that writes on an ACTIVE reservation leaves
\* Seat.reserved_until and Reservation.expires_at equal, and the deadline is
\* the old one raised by the requested time: never earlier than it was, and
\* later by at least the whole ticks requested
ExtendRaisesDeadline ==
    [][\A t \in Tasks :
          (/\ tasks[t].pc = "cs" /\ tasks[t].op = "extend_reservation"
           /\ tasks'[t].pc # "cs"
           /\ reservations[tasks[t].rid].status = "ACTIVE")
          => LET rid == tasks[t].rid
                 s == reservations[rid].seat_id IN
             /\ seats'[s].reserved_until = {reservations'[rid].expires_at}
             /\ reservations'[rid].expires_at
                   >= reservations[rid].expires_at + tasks[t].minutes]_vars

\* the size of a seat list is within 1..MAX_SEATS_PER_BOOKING
GoodSize(seat_ids) ==
    Cardinality(seat_ids) >= 1 /\ Cardinality(seat_ids) <= MaxSeatsPerBooking

\* C15: a reserve, on the lock path or on the queue path, whose seat list has
\* a size outside 1..MAX_SEATS_PER_BOOKING returns an input error at once: it
\* takes no lock, enqueues nothing and changes no seat and no reservation; no
\* such request is ever in flight or in a stream
RejectsBadSize ==
    [][/\ \A t \in Tasks :
             (/\ tasks[t].pc = "idle" /\ tasks'[t].op \in {"reserve", "submit"}
              /\ ~GoodSize(tasks'[t].seat_ids))
             => /\ tasks'[t].pc = "done"
                /\ tasks'[t].result \in {"invalid_input", "invalid", "rejected"}
                /\ locks' = locks /\ streams' = streams /\ registry' = registry
                /\ seats' = seats /\ reservations' = reservations
       /\ \A t \in Tasks :
             (InFlight(t) /\ tasks[t].op \in {"reserve", "submit"})
             => GoodSize(tasks[t].seat_ids)
       /\ \A q \in Queued : GoodSize(q.seat_ids)]_vars

\* a queued reserve of MAX_SEATS_PER_BOOKING + 1 seats has been turned away
\* after another request was queued and served: the streams hold that
\* request only, no lock is held and seat 1 is the only seat taken
RejectsBadSizeWitness ==
    \E t \in Tasks :
        /\ tasks[t].pc = "done" /\ tasks[t].op = "submit"
        /\ Cardinality(tasks[t].seat_ids) = MaxSeatsPerBooking + 1
        /\ tasks[t].result \in {"invalid_input", "rejected"}
        /\ Cardinality(Queued) = 1
        /\ \A q \in Queued : q.seat_ids = {1} /\ registry[q.request_id].status = "completed"
        /\ \A k \in ReqSeatIds : locks[k] = NULL
        /\ Len(reservations) = 1
        /\ seats[1].status = "RESERVED" /\ seats[2] = NewSeat

\* the user of task t owns the reservation or the booking the task names
CallerOwns(t) ==
    IF tasks[t].op = "cancel_booking"
    THEN tasks[t].bid \in DOMAIN bookings /\ tasks[t].user = {bookings[tasks[t].bid].user_id}
    ELSE tasks[t].rid \in DOMAIN reservations
         /\ tasks[t].user = {reservations[tasks[t].rid].user_id}

OwnerOps == {"cancel_reservation", "extend_reservation", "cancel_booking"}

\* C16: cancel_reservation, extend_reservation and cancel_booking called by
\* a user who does not own the reservation or the booking return at once as
\* forbidden, leaving seats, reservations, bookings and locks as they were;
\* such a call is never past its checks
OwnerOnly ==
    [][/\ \A t \in Tasks :
             (/\ tasks[t].pc = "idle" /\ tasks'[t].op \in OwnerOps
              /\ IF tasks'[t].op = "cancel_booking"
                 THEN tasks'[t].user # {bookings[tasks'[t].bid].user_id}
                 ELSE tasks'[t].user # {reservations[tasks'[t].rid].user_id})
             => /\ tasks'[t].pc = "done" /\ tasks'[t].result = "forbidden"
                /\ seats' = seats /\ reservations' = reservations
                /\ bookings' = bookings /\ locks' = locks
       /\ \A t \in Tasks :
             (InFlight(t) /\ tasks[t].op \in OwnerOps) => CallerOwns(t)]_vars

\* U2 has been refused the cancellation of the booking of U1: the booking is
\* still PENDING and its seats are still BOOKED for U1
OwnerOnlyWitness ==
    \E t \in Tasks :
        /\ tasks[t].pc = "done" /\ tasks[t].op = "cancel_booking"
        /\ tasks[t].result = "forbidden" /\ tasks[t].user = {"U2"}
        /\ tasks[t].bid = 1 /\ Len(bookings) = 1
        /\ bookings[1].user_id = "U1" /\ bookings[1].status = "PENDING"
        /\ bookings[1].booking_seats = {1, 2}
        /\ \A s \in {1, 2} : seats[s].status = "BOOKED" /\ seats[s].booking_id = {1}
        /\ \A k \in ReqSeatIds : locks[k] = NULL

\* C17: the operations of the immediate path do not interleave their checks
\* and their writes: when cancel_reservation, extend_reservation,
\* fail_payment or cancel_booking is about to write, the reservation, or the
\* booking and its seats, are as they were when the operation checked them
ChecksAreFresh ==
    \A t \in Tasks :
        tasks[t].pc = "cs" =>
            /\ tasks[t].op \in {"cancel_reservation", "extend_reservation"}
               => tasks[t].lres = {reservations[tasks[t].rid]}
            /\ tasks[t].op \in {"fail_payment", "cancel_booking"}
               => /\ tasks[t].lbk = {bookings[tasks[t].bid]}
                  /\ tasks[t].lseats = get_booking_seats(seats, tasks[t].bid)

\* the outcome the worker recorded for request q
ResultOf(q) == CHOOSE o \in registry[q.request_id].result : TRUE

\* C18: on one stream the requests are served in the order of their arrival:
\* when a request has been picked up, every request enqueued before it on
\* the same stream has its outcome recorded and is off the pending list, and
\* if the earlier one asked for the same seats and got them, the later one
\* fails as unavailable, naming the seats, which the earlier user holds
StreamOrder ==
    \A p \in Range(Priorities) :
        \A i, j \in 1..Len(streams[p]) :
            (i < j /\ j <= group.delivered[p]) =>
                LET R1 == streams[p][i]
                    R2 == streams[p][j] IN
                /\ registry[R1.request_id].result # NULL
                /\ R1.request_id \notin group.pending
                /\ \A w \in Workers : workers[w].request # {R1}
                /\ (/\ R1.seat_ids = R2.seat_ids
                    /\ registry[R2.request_id].result # NULL
                    /\ ResultOf(R1).success)
                   => /\ ~ResultOf(R2).success
                      /\ ResultOf(R2).message = "unavailable"
                      /\ ResultOf(R2).labels = {SeatNumber(s) : s \in R2.seat_ids}
                      /\ \A s \in R1.seat_ids : HeldBy(s, R1.user_id)

\* two requests for seat 1 on the normal stream, both served: the first is
\* completed and its user holds the seat, the second is failed as
\* unavailable, naming seat "10"
StreamOrderWitness ==
    /\ Len(streams["normal"]) = 2
    /\ workers[1].pc = "read" /\ group.pending = {}
    /\ LET R1 == streams["normal"][1]
           R2 == streams["normal"][2] IN
       /\ R1.seat_ids = {1} /\ R2.seat_ids = {1}
       /\ R1.user_id = "U1" /\ R2.user_id = "U2"
       /\ registry[R1.request_id].status = "completed"
       /\ registry[R2.request_id].status = "failed"
       /\ registry[R1.request_id].result # NULL /\ registry[R2.request_id].result # NULL
       /\ ResultOf(R1).success
       /\ ResultOf(R2).message = "unavailable" /\ ResultOf(R2).labels = {"10"}
       /\ HeldBy(1, "U1")

\* the entries of the stream of priority p that no read has delivered yet;
\* request ids are given in the order of XADD
Waiting(p) == {streams[p][k] : k \in (group.delivered[p] + 1)..Len(streams[p])}

\* C19: priorities drain in descending order: no read delivers an entry of
\* the NORMAL or LOW stream while an entry enqueued before it is waiting on
\* a stream of higher priority, and no read happens while the worker has a
\* message in flight
HighDrainsFirst ==
    [][\A i \in 1..Len(Priorities) :
          group'.delivered[Priorities[i]] # group.delivered[Priorities[i]]
          => LET picked == streams[Priorities[i]][group.delivered[Priorities[i]] + 1] IN
             /\ \A h \in 1..(i - 1) : \A q \in Waiting(Priorities[h]) :
                   picked.request_id < q.request_id
             /\ group.pending = {}]_vars

\* the requests that have been picked up and do not have their terminal
\* status yet
InFlightRequests ==
    {q \in Queued : \E w \in Workers :
        /\ workers[w].request = {q}
        /\ workers[w].pc \in {"set_processing", "process", "set_result", "set_result_status"}}

\* C20: the process runs at most one worker for the event, and at most one
\* queued request is in flight
OneInFlight ==
    /\ Cardinality({w \in Workers : workers[w].running}) <= 1
    /\ Cardinality(InFlightRequests) <= 1
    /\ Cardinality(group.pending) <= 1

\* two submissions overlap while the worker executes an earlier request: both
\* have written their entry and neither has returned, one worker runs and the
\* two new entries wait
OneInFlightWitness ==
    /\ \A t \in Tasks : tasks[t].op = "submit" /\ tasks[t].pc = "set_status"
    /\ workers[1].running /\ ~workers[2].running
    /\ workers[1].pc = "process"
    /\ Cardinality(InFlightRequests) = 1
    /\ Cardinality(Unprocessed) = 3
    /\ Cardinality(group.pending) = 1

\* the place of a registry status on PENDING, PROCESSING, then COMPLETED or
\* FAILED; "none" is a request with no status hash yet
StatusRank(status) ==
    CASE status = "none" -> 0
      [] status = "pending" -> 1
      [] status = "processing" -> 2
      [] status \in {"completed", "failed"} -> 3

\* C21: the registry status of a request only moves forward: no write
\* replaces a status by an earlier one, and a terminal status is never
\* replaced by the other terminal status
StatusMovesForward ==
    [][\A r \in RequestIds :
          /\ StatusRank(registry'[r].status) >= StatusRank(registry[r].status)
          /\ StatusRank(registry[r].status) = 3
             => registry'[r].status = registry[r].status]_vars

\* request r is in a stream
Enqueued(r) == \E q \in Queued : q.request_id = r

\* C22: with the worker running and scheduled fairly, every request that
\* was enqueued reaches status COMPLETED or FAILED in the registry and keeps
\* it from then on
EventuallyTerminal ==
    \A r \in RequestIds :
        [](Enqueued(r) => <>[](registry[r].status \in {"completed", "failed"}))

\* C23: a worker that holds a request whose registry status is COMPLETED
\* mutates nothing: in each of its steps the seats, the reservations and the
\* status and result of the request stay as they are
RedeliveryChangesNothing ==
    [][\A w \in Workers : \A q \in workers[w].request :
          (registry[q.request_id].status = "completed" /\ workers'[w] # workers[w])
          => /\ seats' = seats
             /\ reservations' = reservations
             /\ registry'[q.request_id] = registry[q.request_id]]_vars

\* C24: a v2 submission that has returned has given its caller a request id
\* with a record in the status registry, and a submission that was refused
\* has its error recorded there as FAILED
SubmissionIsRecorded ==
    \A t \in Tasks :
        (tasks[t].pc = "done" /\ tasks[t].op = "submit")
        => /\ tasks[t].request_id \in RequestIds
           /\ registry[tasks[t].request_id].status # "none"
           /\ tasks[t].result # "pending"
              => registry[tasks[t].request_id].status = "failed"

\* the header values that mark a premium principal
PremiumHeaders == {"VIP", "premium"}

OwnerCheckedRelease ==
    [][/\ \A t \in Tasks : \A k \in ReqSeatIds :
             (tasks[t].pc = "unlock" /\ tasks'[t] # tasks[t] /\ locks[k] # {t})
             => locks'[k] = locks[k]
       /\ \A k \in ReqSeatIds : locks[k] \subseteq Tasks /\ Cardinality(locks[k]) <= 1]_vars

\* the lease of task 1 on seat 2 ran out inside its critical section and
\* task 2 took the key; task 1 has finished its release and the key still
\* holds the token of task 2
OwnerCheckedReleaseWitness ==
    /\ tasks[1].pc = "done" /\ tasks[1].op = "reserve" /\ tasks[1].result = "ok"
    /\ tasks[1].seat_ids = {2}
    /\ locks[2] = {2}
    /\ tasks[2].pc = "cs" /\ tasks[2].held = <<2>>

Ascending(s) == \A i, j \in 1..Len(s) : i < j => s[i] < s[j]

\* C27: multi_lock takes its keys one at a time in ascending order; when a
\* key cannot be taken it releases the keys it holds, the last taken first,
\* one at a time, and touches no other key; a call that has left the
\* guarded block, with or without an error, holds no key
MultiLockOrder ==
    /\ [](\A t \in Tasks :
            /\ Ascending(tasks[t].held \o tasks[t].todo)
            /\ tasks[t].pc \in {"idle", "done"} => \A k \in ReqSeatIds : locks[k] # {t})
    /\ [][\A t \in Tasks :
            /\ (tasks[t].pc = "lock" /\ tasks'[t] # tasks[t]) =>
                  \/ /\ tasks'[t].held = Append(tasks[t].held, Head(tasks[t].todo))
                     /\ locks' = [locks EXCEPT ![Head(tasks[t].todo)] = {t}]
                  \/ tasks'[t].held = tasks[t].held /\ locks' = locks
                  \/ tasks[t].held = <<>> /\ tasks'[t].pc = "done" /\ locks' = locks
            /\ (tasks[t].pc = "unlock" /\ tasks'[t] # tasks[t]) =>
                  LET n == Len(tasks[t].held) IN
                  /\ n > 0
                  /\ \A k \in ReqSeatIds : k # tasks[t].held[n] => locks'[k] = locks[k]
                  /\ locks'[tasks[t].held[n]] # {t}
                  /\ IF n = 1 THEN tasks'[t].pc = "done"
                     ELSE tasks'[t].held = SubSeq(tasks[t].held, 1, n - 1)]_vars

\* task 1 took seat 1, could not take seat 2, and is about to release seat 1
MultiLockOrderWitness ==
    /\ tasks[1].pc = "unlock" /\ tasks[1].result = "lock_failed"
    /\ tasks[1].seat_ids = {1, 2} /\ tasks[1].held = <<1>>
    /\ locks[1] = {1} /\ locks[2] = {2}

\* C28: a multi_lock call terminates whatever the other callers do: a call
\* that waits for a key ends up inside its block or returns; it fails at
\* most MaxRetries times on a key before it gives up, so a key is attempted
\* at most MaxRetries + 1 times; the call that gives up returns lock_failed
\* and no step of it changes a seat, a reservation or a booking
MultiLockTerminates ==
    /\ \A t \in Tasks : (tasks[t].pc = "lock") ~> (tasks[t].pc \in {"cs", "done"})
    /\ \A t \in Tasks : (tasks[t].pc = "unlock") ~> (tasks[t].pc = "done")
    /\ [](\A t \in Tasks : tasks[t].retries <= MaxRetries)
    /\ [][\A t \in Tasks :
            /\ (tasks'[t].result = "lock_failed" /\ tasks[t].result # "lock_failed")
                  => (tasks[t].pc = "lock" /\ tasks[t].retries = MaxRetries)
            /\ (tasks'[t] # tasks[t] /\ "lock_failed" \in {tasks[t].result, tasks'[t].result}
                   /\ tasks[t].pc # "done")
                  => UNCHANGED <<seats, reservations, bookings>>]_vars

\* task 1 has used up its attempts on a key that task 2 holds and has
\* returned lock_failed; no seat of the event has changed
MultiLockTerminatesWitness ==
    /\ tasks[1].pc = "done" /\ tasks[1].op = "reserve" /\ tasks[1].result = "lock_failed"
    /\ tasks[2].pc = "cs" /\ locks[2] = {2}
    /\ \A k \in SeatIds : seats[k].status = "AVAILABLE"

\* C29: when the lease of a key runs out while the call is inside its
\* block, the release at the end finds that the key no longer holds the
\* token of the call, and the call does not return a plain success
LeaseLossIsReported ==
    [][\A t \in Tasks :
          (/\ tasks[t].pc = "unlock" /\ tasks'[t] # tasks[t]
           /\ tasks[t].result = "ok"
           /\ locks[tasks[t].held[Len(tasks[t].held)]] # {t})
          => tasks'[t].result # "ok"]_vars

\* C30: when the reclaimer and a booking meet on the same overdue hold, one
\* of them wins: the commit of the reclaimer never takes a BOOKED seat out
\* of BOOKED and never replaces CONFIRMED by EXPIRED on a reservation
ReclaimerSparesBooked ==
    [][(reclaimer.pc = "commit" /\ reclaimer'.pc = "sleep") =>
          /\ \A s \in SeatIds : seats[s].status = "BOOKED" => seats'[s] = seats[s]
          /\ \A i \in DOMAIN reservations :
                reservations[i].status = "CONFIRMED" => reservations'[i] = reservations[i]]_vars

\* C31: the step in which create_booking succeeds adds one booking, PENDING
\* with payment PENDING, whose total is the sum of the prices of its seats,
\* with one booking seat per requested seat at the price of the seat; it
\* sets each of these seats BOOKED with holder and deadline cleared, the
\* booking recorded and the version raised by one; it turns every ACTIVE
\* reservation of the user on these seats into CONFIRMED; and it changes no
\* other seat and no other reservation
BookCommitsWhole ==
    [][\A t \in Tasks :
          (tasks[t].pc = "cs" /\ tasks[t].op = "book" /\ tasks'[t].result = "ok") =>
             LET S == tasks[t].seat_ids
                 bid == Len(bookings) + 1 IN
             /\ Len(bookings') = bid
             /\ SubSeq(bookings', 1, Len(bookings)) = bookings
             /\ bookings'[bid].status = "PENDING"
             /\ bookings'[bid].payment_status = "PENDING"
             /\ {bookings'[bid].user_id} = tasks[t].user
             /\ bookings'[bid].total_amount = SumPrice(S)
             /\ bookings'[bid].booking_seats = S
             /\ \A s \in S : bookings'[bid].seat_price[s] = SeatPrice(s)
             /\ tasks'[t].bid = bid
             /\ \A s \in SeatIds :
                   IF s \in S
                   THEN seats'[s] = [seats[s] EXCEPT !.status = "BOOKED",
                                                     !.reserved_by = NULL,
                                                     !.reserved_until = NULL,
                                                     !.booking_id = {bid},
                                                     !.version = @ + 1]
                   ELSE seats'[s] = seats[s]
             /\ DOMAIN reservations' = DOMAIN reservations
             /\ \A i \in DOMAIN reservations :
                   IF /\ reservations[i].status = "ACTIVE"
                      /\ reservations[i].seat_id \in S
                      /\ {reservations[i].user_id} = tasks[t].user
                   THEN reservations'[i] = [reservations[i] EXCEPT !.status = "CONFIRMED"]
                   ELSE reservations'[i] = reservations[i]]_vars

\* U1 has booked seats 1 and 2 in one booking of 120, and both holds are
\* CONFIRMED
BookCommitsWholeWitness ==
    /\ \E t \in Tasks : tasks[t].op = "book" /\ tasks[t].result = "ok" /\ tasks[t].bid = 1
                        /\ tasks[t].seat_ids = {1, 2}
    /\ Len(bookings) = 1 /\ bookings[1].total_amount = 120
    /\ bookings[1].booking_seats = {1, 2}
    /\ \A s \in {1, 2} : seats[s].status = "BOOKED" /\ seats[s].booking_id = {1}
    /\ \A i \in DOMAIN reservations : reservations[i].status = "CONFIRMED"
    /\ Len(reservations) = 2

AvailableSeats == {s \in SeatIds : seats[s].status = "AVAILABLE"}
NothingInFlight ==
    /\ \A t \in Tasks : tasks[t].pc = "idle"
    /\ reclaimer.pc = "sleep"
    /\ \A w \in Workers : workers[w].request = NULL

\* C32: the counter of the event follows the seat table: whenever no
\* operation is in flight, available_seats of the event is the number of its
\* AVAILABLE seats
CounterFollowsSeats ==
    NothingInFlight => events[EventId].available_seats = Cardinality(AvailableSeats)

\* C33: a message is acknowledged only when the registry shows the terminal
\* status of its request: at the XACK of a worker the status of the request
\* is COMPLETED or FAILED, never PENDING or PROCESSING
AckAfterTerminal ==
    [][\A w \in Workers :
          (workers[w].pc = "ack" /\ workers'[w].pc # "ack") =>
             \A q \in workers[w].request :
                registry[q.request_id].status \in {"completed", "failed"}]_vars

InDlq(r) == \E i \in DOMAIN dlq : dlq[i].request_id = r

\* C34: a queued request whose reservation raised an error (seat not found,
\* seat of another event, seats not available) is on the dead-letter stream
\* once its failure is stored, and its status is FAILED with the message
FailedIsDeadLettered ==
    \A r \in RequestIds :
        \A o \in registry[r].result :
            ~o.success => /\ InDlq(r)
                          /\ registry[r].status = "failed" => o.message # "ok"

InFlightAt(w, r) == \E q \in workers[w].request : q.request_id = r

\* C35: a message the worker has moved to the dead-letter stream is
\* acknowledged: once the worker has gone on to its next read, no
\* dead-lettered request is on the pending list of the group
DeadLetteredIsAcked ==
    \A r \in RequestIds :
        (InDlq(r) /\ \A w \in Workers : ~InFlightAt(w, r)) => r \notin group.pending

\* the worker has stored the outcome of the request: set_result writes the
\* result record and then COMPLETED or FAILED
Served(r) == registry[r].result # NULL

\* C36: a message that was picked up and not acknowledged is delivered
\* again: provided a worker of the event keeps running, every request on
\* the pending list of the group is served to its end, with a result and a
\* terminal status, and does not stay PROCESSING for ever
PendingIsServedAgain ==
    \A r \in RequestIds :
        ([]<>(\E w \in Workers : workers[w].running))
        => [](r \in group.pending => <>Served(r))

\* C37: a worker that is stopped first finishes the message it has in
\* flight: every request on the pending list of the group is in the hands
\* of a running worker, so a stopped worker leaves nothing picked up and
\* unacknowledged
StopFinishesInFlight ==
    \A r \in group.pending : \E w \in Workers : workers[w].running /\ InFlightAt(w, r)

\* C38: a subscription closes on a terminal status: no subscription stays
\* open for ever on a request whose status is COMPLETED or FAILED, whether
\* the status became terminal during the subscription or before it began
SubscriptionCloses ==
    \A c \in Subscribers :
        []<>~(/\ subs[c].pc = "poll"
              /\ registry[subs[c].request_id].status \in {"completed", "failed"})

\* C39: the commit of a cancel_reservation changes no seat that another
\* user holds: a seat that is RESERVED by someone other than the caller when
\* the commit runs is the same after it
CancelSparesOtherHolder ==
    [][\A t \in Tasks :
          (/\ tasks[t].pc = "cs" /\ tasks[t].op = "cancel_reservation"
           /\ tasks'[t].pc # "cs")
          => \A s \in SeatIds :
                (seats[s].status = "RESERVED" /\ seats[s].reserved_by # tasks[t].user)
                => seats'[s] = seats[s]]_vars

====

